---- MODULE Spec2Model ----
(***************************************************************************)
(* Model of the data-collection scripts of Lab02_Collect_Web_Data.          *)
(*                                                                         *)
(* Part 1: extended-hw-part3/multi_crypto_tracker.py                        *)
(*   - time is counted in ticks, TicksPerSecond ticks to the second;        *)
(*     strftime('%Y-%m-%d %H:%M:%S') truncates to whole seconds and yields  *)
(*     fixed-width fields, modelled as <<minutes, seconds>>, compared field *)
(*     by field as Python compares the strings;                             *)
(*   - prices are counted in cents (0.23 USD = 23);                         *)
(*   - a string is compared through its code points (Ord);                  *)
(*   - Python's None is the value None, Some(v) any other value.            *)
(* Environment assumptions: the local clock never steps backwards,          *)
(* time.sleep(n) returns after n seconds (any later return is part of the  *)
(* next request's latency), file writes succeed.                            *)
(***************************************************************************)
EXTENDS Integers, Sequences, FiniteSets, TLC

VARIABLES
    entry,            \* the function the run calls
    pc,               \* position in the code
    now,              \* wall clock, in ticks
    crypto_symbols,   \* ids requested (main: line 225; parameter otherwise)
    samples,          \* parameter of get_crypto_samples_over_time
    interval_seconds, \* parameter of get_crypto_samples_over_time
    i,                \* loop index of get_crypto_samples_over_time (line 119)
    all_crypto_data,  \* main's list (line 233)
    raw_data,         \* main's raw_data (line 237)
    sample_data,      \* get_crypto_samples_over_time's all_crypto_data (line 117)
    samples_df,       \* value returned by get_crypto_samples_over_time
    df,               \* the table handed to save_threshold_alerts
    files,            \* files written: name -> content
    ret,              \* value returned by the entry function
    last_fetch,       \* the latest call of get_multiple_crypto_prices: what the
                      \* API answered and what the call returned and printed;
                      \* in a scraper, what the site answered for the latest
                      \* listing page
    log               \* operations so far: HTTP requests (with the number of
                      \* records each contributed), sleeps, final messages

\* the other scripts of the lab; each run is of one script, and the variables of
\* the others keep their initial values
VARIABLES
    cities_iter,        \* weather main: the cities the loop of line 205 has yet to visit
    all_hourly_data,    \* weather main's list (line 200)
    all_daily_data,     \* weather main's list (line 201)
    all_raw_data,       \* weather main's dict (line 202)
    max_pages,          \* parameter of the scrapers
    articles_per_page,  \* parameter of the scrapers
    page_num,           \* loop variable of the scrapers (line 80; v2: line 94)
    all_articles_data,  \* the scrapers' list (line 78; v2: line 91)
    price_data,         \* get_bitcoin_multiple_samples's list (line 44)
    all_price_data,     \* bitcoin main's list (line 110)
    args                \* the arguments of a direct call of one function

weather_vars == <<cities_iter, all_hourly_data, all_daily_data, all_raw_data>>
scraper_vars == <<max_pages, articles_per_page, page_num, all_articles_data>>
bitcoin_vars == <<price_data, all_price_data>>
crypto_vars == <<crypto_symbols, all_crypto_data, raw_data, sample_data, df, last_fetch>>

vars == <<entry, pc, now, crypto_symbols, samples, interval_seconds, i,
          all_crypto_data, raw_data, sample_data, samples_df, df, files, ret,
          last_fetch, log, weather_vars, scraper_vars, bitcoin_vars, args>>

-----------------------------------------------------------------------------
(* Bounds of the model *)

TicksPerSecond == 2
MaxLatency == 1
MaxSamples == 3
MaxRows == 2

(* Literals of the program *)

MainSamples == 3
MainInterval == 15
DefaultInterval == 30

-----------------------------------------------------------------------------
(* Python values *)

None == [isNone |-> TRUE]
Some(v) == [isNone |-> FALSE, val |-> v]
\* truth value of an optional list or dict: None and the empty one are false
Truthy(o) == ~o.isNone /\ DOMAIN o.val # {}

Min(a, b) == IF a < b THEN a ELSE b

\* code points of the strings the model uses
Ord == [bitcoin  |-> <<98, 105, 116, 99, 111, 105, 110>>,
        ethereum |-> <<101, 116, 104, 101, 114, 101, 117, 109>>,
        dogecoin |-> <<100, 111, 103, 101, 99, 111, 105, 110>>,
        solana   |-> <<115, 111, 108, 97, 110, 97>>,
        btc      |-> <<98, 116, 99>>,
        BITCOIN  |-> <<66, 73, 84, 67, 79, 73, 78>>,
        ETHEREUM |-> <<69, 84, 72, 69, 82, 69, 85, 77>>,
        DOGECOIN |-> <<68, 79, 71, 69, 67, 79, 73, 78>>,
        SOLANA   |-> <<83, 79, 76, 65, 78, 65>>,
        BTC      |-> <<66, 84, 67>>,
        ETH      |-> <<69, 84, 72>>,
        DOGE     |-> <<68, 79, 71, 69>>]

\* str.upper(), character by character
UpperCode(c) == IF c >= 97 /\ c <= 122 THEN c - 32 ELSE c
Upper(s) == CHOOSE u \in DOMAIN Ord :
                Ord[u] = [k \in DOMAIN Ord[s] |-> UpperCode(Ord[s][k])]

\* a < b for two sequences of numbers, as Python orders strings
LexLess(a, b) ==
    \E k \in 0..Min(Len(a), Len(b)) :
        /\ \A j \in 1..k : a[j] = b[j]
        /\ IF k = Len(a) THEN k < Len(b)
           ELSE k < Len(b) /\ a[k + 1] < b[k + 1]

\* datetime.now().strftime('%Y-%m-%d %H:%M:%S'): whole seconds, fixed-width fields
Strftime(t) == LET s == t \div TicksPerSecond IN <<s \div 60, s % 60>>

-----------------------------------------------------------------------------
(* multi_crypto_tracker.py: data *)

PRICE_THRESHOLDS ==
    [BTC  |-> [high |-> 11300000, low |-> 11000000],
     ETH  |-> [high |-> 410000,   low |-> 400000],
     DOGE |-> [high |-> 23,       low |-> 20]]

\* faulty variant: the ids are recorded in upper case, not under their tickers
crypto_map_upper == [bitcoin |-> "BITCOIN", ethereum |-> "ETHEREUM",
                     dogecoin |-> "DOGECOIN"]

crypto_map == [bitcoin |-> "BTC", ethereum |-> "ETH", dogecoin |-> "DOGE"]

DefaultSymbols == <<"bitcoin", "ethereum", "dogecoin">>

\* dict.get(key, default)
DictGet(d, key, default) == IF key \in DOMAIN d THEN d[key] ELSE default

\* faulty variant: a symbol without bounds is reported NORMAL instead of skipped
check_price_thresholds_default(symbol, price) ==
    IF symbol \in DOMAIN PRICE_THRESHOLDS
    THEN LET thresholds == PRICE_THRESHOLDS[symbol]
         IN  IF price > thresholds.high
             THEN <<[kind |-> "HIGH ALERT", symbol |-> symbol, price |-> price]>>
             ELSE IF price < thresholds.low
             THEN <<[kind |-> "LOW ALERT", symbol |-> symbol, price |-> price]>>
             ELSE <<[kind |-> "NORMAL", symbol |-> symbol, price |-> price]>>
    ELSE <<[kind |-> "NORMAL", symbol |-> symbol, price |-> price]>>

\* faulty variant: a price on a bound is outside the band
check_price_thresholds_inclusive(symbol, price) ==
    IF symbol \in DOMAIN PRICE_THRESHOLDS
    THEN LET thresholds == PRICE_THRESHOLDS[symbol]
         IN  IF price >= thresholds.high
             THEN <<[kind |-> "HIGH ALERT", symbol |-> symbol, price |-> price]>>
             ELSE IF price <= thresholds.low
             THEN <<[kind |-> "LOW ALERT", symbol |-> symbol, price |-> price]>>
             ELSE <<[kind |-> "NORMAL", symbol |-> symbol, price |-> price]>>
    ELSE <<>>

check_price_thresholds(symbol, price) ==
    IF symbol \in DOMAIN PRICE_THRESHOLDS
    THEN LET thresholds == PRICE_THRESHOLDS[symbol]
         IN  IF price > thresholds.high
             THEN <<[kind |-> "HIGH ALERT", symbol |-> symbol, price |-> price]>>
             ELSE IF price < thresholds.low
             THEN <<[kind |-> "LOW ALERT", symbol |-> symbol, price |-> price]>>
             ELSE <<[kind |-> "NORMAL", symbol |-> symbol, price |-> price]>>
    ELSE <<>>

\* the loop of lines 81-96 over the ids still to do; raised: data[crypto_id]["usd"]
\* raised KeyError, which leaves the loop with crypto_data partly built
RECURSIVE BuildCryptoData(_, _, _, _, _)
BuildCryptoData(ids, data, current_time, crypto_data, all_warnings) ==
    IF ids = <<>>
    THEN [raised |-> FALSE, crypto_data |-> crypto_data, all_warnings |-> all_warnings]
    ELSE LET crypto_id == Head(ids) IN
         IF crypto_id \notin DOMAIN data
         THEN BuildCryptoData(Tail(ids), data, current_time, crypto_data, all_warnings)
         ELSE IF "usd" \notin DOMAIN data[crypto_id]
         THEN [raised |-> TRUE, crypto_data |-> crypto_data, all_warnings |-> all_warnings]
         ELSE LET price == data[crypto_id].usd
                  symbol == DictGet(crypto_map, crypto_id, Upper(crypto_id))
              IN  BuildCryptoData(Tail(ids), data, current_time,
                      Append(crypto_data, [time |-> current_time,
                                           symbol |-> symbol,
                                           usd_price |-> price]),
                      all_warnings \o check_price_thresholds(symbol, price))

\* faulty variant: the except branch returns the records built before the error
get_multiple_crypto_prices_partial(ids, response, current_time) ==
    IF response.kind # "ok"
    THEN [crypto_data |-> None, data |-> None, printed |-> <<>>]
    ELSE LET built == BuildCryptoData(ids, response.data, current_time, <<>>, <<>>)
         IN  IF built.raised
             THEN [crypto_data |-> Some(built.crypto_data), data |-> None,
                   printed |-> <<>>]
             ELSE [crypto_data |-> Some(built.crypto_data),
                   data |-> Some(response.data),
                   printed |-> built.all_warnings]

\* faulty variant: an id missing from the payload is an error, not skipped
get_multiple_crypto_prices_strict(ids, response, current_time) ==
    IF response.kind # "ok"
    THEN [crypto_data |-> None, data |-> None, printed |-> <<>>]
    ELSE LET built == BuildCryptoData(ids, response.data, current_time, <<>>, <<>>)
         IN  IF built.raised \/ \E k \in 1..Len(ids) : ids[k] \notin DOMAIN response.data
             THEN [crypto_data |-> None, data |-> None, printed |-> <<>>]
             ELSE [crypto_data |-> Some(built.crypto_data),
                   data |-> Some(response.data),
                   printed |-> built.all_warnings]

\* response: what requests.get / raise_for_status / json() gave;
\* the result is (crypto_data, data) and the warnings printed
get_multiple_crypto_prices(ids, response, current_time) ==
    IF response.kind # "ok"
    THEN [crypto_data |-> None, data |-> None, printed |-> <<>>]
    ELSE LET built == BuildCryptoData(ids, response.data, current_time, <<>>, <<>>)
         IN  IF built.raised
             THEN [crypto_data |-> None, data |-> None, printed |-> <<>>]
             ELSE [crypto_data |-> Some(built.crypto_data),
                   data |-> Some(response.data),
                   printed |-> built.all_warnings]

-----------------------------------------------------------------------------
(* pandas *)

\* pd.DataFrame(list of dicts): one row per dict, the columns of the dicts
DataFrame(records) ==
    [k \in 1..Len(records) |-> [time |-> records[k].time,
                                symbol |-> records[k].symbol,
                                usd_price |-> records[k].usd_price]]

\* df.to_dict('records')
to_dict_records(frame) ==
    [k \in 1..Len(frame) |-> [c \in DOMAIN frame[k] |-> frame[k][c]]]

\* the subset of drop_duplicates(subset=['time', 'symbol'])
DupKey(row) == <<row.time, row.symbol>>

\* df.drop_duplicates(subset=['time', 'symbol']): keep = 'first'
RECURSIVE drop_duplicates(_)
drop_duplicates(frame) ==
    IF frame = <<>> THEN <<>>
    ELSE LET n == Len(frame)
             front == drop_duplicates(SubSeq(frame, 1, n - 1))
         IN  IF \E k \in 1..(n - 1) : DupKey(frame[k]) = DupKey(frame[n])
             THEN front
             ELSE Append(front, frame[n])

\* row a sorts strictly before row b under sort_values(['time', 'symbol'])
KeyLess(a, b) ==
    \/ LexLess(a.time, b.time)
    \/ a.time = b.time /\ LexLess(Ord[a.symbol], Ord[b.symbol])

RECURSIVE SortedInsert(_, _)
SortedInsert(row, sorted) ==
    IF sorted = <<>> THEN <<row>>
    ELSE IF KeyLess(row, Head(sorted)) THEN <<row>> \o sorted
    ELSE <<Head(sorted)>> \o SortedInsert(row, Tail(sorted))

RECURSIVE TimeInsert(_, _)
TimeInsert(row, sorted) ==
    IF sorted = <<>> THEN <<row>>
    ELSE IF LexLess(row.time, Head(sorted).time) THEN <<row>> \o sorted
    ELSE <<Head(sorted)>> \o TimeInsert(row, Tail(sorted))

\* faulty variant: sorted by time alone
RECURSIVE sort_values_by_time(_)
sort_values_by_time(frame) ==
    IF frame = <<>> THEN <<>>
    ELSE LET n == Len(frame)
         IN  TimeInsert(frame[n], sort_values_by_time(SubSeq(frame, 1, n - 1)))

\* df.sort_values(['time', 'symbol']).reset_index(drop=True): a stable sort
RECURSIVE sort_values(_)
sort_values(frame) ==
    IF frame = <<>> THEN <<>>
    ELSE LET n == Len(frame)
         IN  SortedInsert(frame[n], sort_values(SubSeq(frame, 1, n - 1)))

-----------------------------------------------------------------------------
(* multi_crypto_tracker.py: save_threshold_alerts *)

\* faulty variant: the bounds themselves raise an alert
AlertType_inclusive(thresholds, price) ==
    IF price >= thresholds.high THEN "HIGH_ALERT"
    ELSE IF price <= thresholds.low THEN "LOW_ALERT"
    ELSE "NORMAL"

\* lines 189-194
AlertType(thresholds, price) ==
    IF price > thresholds.high THEN "HIGH_ALERT"
    ELSE IF price < thresholds.low THEN "LOW_ALERT"
    ELSE "NORMAL"

\* faulty variant: rows inside the band get no alert row
RECURSIVE AlertRows_skip_normal(_)
AlertRows_skip_normal(frame) ==
    IF frame = <<>> THEN <<>>
    ELSE LET row == Head(frame)
             symbol == row.symbol
             price == row.usd_price
         IN  IF symbol \in DOMAIN PRICE_THRESHOLDS
                /\ AlertType(PRICE_THRESHOLDS[symbol], price) # "NORMAL"
             THEN LET thresholds == PRICE_THRESHOLDS[symbol]
                  IN  <<[time |-> row.time,
                         symbol |-> symbol,
                         price |-> price,
                         alert_type |-> AlertType(thresholds, price),
                         threshold_low |-> thresholds.low,
                         threshold_high |-> thresholds.high]>>
                      \o AlertRows_skip_normal(Tail(frame))
             ELSE AlertRows_skip_normal(Tail(frame))

\* the loop of lines 182-203: the alerts list
RECURSIVE AlertRows(_)
AlertRows(frame) ==
    IF frame = <<>> THEN <<>>
    ELSE LET row == Head(frame)
             symbol == row.symbol
             price == row.usd_price
         IN  IF symbol \in DOMAIN PRICE_THRESHOLDS
             THEN LET thresholds == PRICE_THRESHOLDS[symbol]
                  IN  <<[time |-> row.time,
                         symbol |-> symbol,
                         price |-> price,
                         alert_type |-> AlertType(thresholds, price),
                         threshold_low |-> thresholds.low,
                         threshold_high |-> thresholds.high]>>
                      \o AlertRows(Tail(frame))
             ELSE AlertRows(Tail(frame))

AlertsFile(base_filename) ==
    IF base_filename = "multi_crypto_tracker" THEN "multi_crypto_tracker_alerts.csv"
    ELSE "alerts.csv"

\* the files after the call, and the value returned
save_threshold_alerts(frame, base_filename, fs) ==
    LET alerts == AlertRows(frame)
    IN  IF alerts # <<>>
        THEN [files |-> (AlertsFile(base_filename) :> alerts) @@ fs,
              ret |-> Some(alerts)]
        ELSE [files |-> fs, ret |-> None]

-----------------------------------------------------------------------------
(* Inputs: what the price API may answer, and the calls made *)

\* prices the API may quote for an id, in cents: below the low bound, the low
\* bound, inside the band, the high bound, above the high bound
Quote == [bitcoin  |-> <<10900000, 11000000, 11150000, 11300000, 11400000>>,
          btc      |-> <<10900000, 11000000, 11150000, 11300000, 11400000>>,
          ethereum |-> <<399900, 400000, 405000, 410000, 410100>>,
          dogecoin |-> <<19, 20, 21, 23, 24>>,
          solana   |-> <<15000, 15100, 15200, 15300, 15400>>]

Levels == 1..5
Variants == 1..3

\* the quote level of the k-th requested id in variant v
LevelOf(k, v) == ((k + 2 * v) % 5) + 1

Entry(crypto_id, level) == [usd |-> Quote[crypto_id][level], last_updated_at |-> 0]

Ids(ids) == {ids[k] : k \in 1..Len(ids)}
PosOf(ids, crypto_id) == CHOOSE k \in 1..Len(ids) : ids[k] = crypto_id

\* every requested id quoted
AllPresent(ids, v) ==
    [crypto_id \in Ids(ids) |-> Entry(crypto_id, LevelOf(PosOf(ids, crypto_id), v))]

\* only the first requested id quoted, above its high bound
OnlyFirst(ids) ==
    [crypto_id \in (IF ids = <<>> THEN {} ELSE {ids[1]}) |-> Entry(crypto_id, 5)]

\* every requested id present, the last one without its "usd" price
LackUsd(ids) ==
    [crypto_id \in Ids(ids) |->
        IF crypto_id = ids[Len(ids)] THEN [last_updated_at |-> 0]
        ELSE Entry(crypto_id, LevelOf(PosOf(ids, crypto_id), 1))]

Payloads(ids) ==
    {AllPresent(ids, v) : v \in Variants} \cup {OnlyFirst(ids), LackUsd(ids), <<>>}

FailureKinds == {"connection_error", "http_error", "invalid_json"}

Responses(ids) ==
    {[kind |-> f] : f \in FailureKinds}
    \cup {[kind |-> "ok", data |-> d] : d \in Payloads(ids)}

SymbolLists == {DefaultSymbols, <<"solana", "bitcoin">>, <<"btc">>}
Intervals == {0, DefaultInterval}

\* the rows a table handed to save_threshold_alerts may hold
SymbolQuote == [BTC |-> Quote.bitcoin, ETH |-> Quote.ethereum,
                DOGE |-> Quote.dogecoin, SOLANA |-> Quote.solana]
Rows == {[time |-> Strftime(0), symbol |-> s, usd_price |-> SymbolQuote[s][l]] :
            s \in DOMAIN SymbolQuote, l \in Levels}
Tables == UNION {[1..n -> Rows] : n \in 0..MaxRows}

-----------------------------------------------------------------------------
(* State machine *)

RequestEvent(r) ==
    [op |-> "request",
     records |-> IF Truthy(r.crypto_data) THEN Len(r.crypto_data.val) ELSE 0]
Fetched(response, r) ==
    [response |-> response, crypto_data |-> r.crypto_data, printed |-> r.printed]
SleepEvent(secs) == [op |-> "sleep", secs |-> secs]
PrintEvent(msg) == [op |-> "print", msg |-> msg]

StartSecond == 40

InitMain ==
    /\ entry = "main"
    /\ pc = "main"
    /\ crypto_symbols = DefaultSymbols
    /\ samples = MainSamples
    /\ interval_seconds = MainInterval
    /\ df = <<>>

InitSamples ==
    /\ entry = "get_crypto_samples_over_time"
    /\ pc = "sample"
    /\ crypto_symbols \in SymbolLists
    /\ samples \in 0..MaxSamples
    /\ interval_seconds \in Intervals
    /\ df = <<>>

InitAlerts ==
    /\ entry = "save_threshold_alerts"
    /\ pc = "alerts"
    /\ crypto_symbols = DefaultSymbols
    /\ samples = 0
    /\ interval_seconds = 0
    /\ df \in Tables

\* a script that is not run
WeatherIdle ==
    /\ cities_iter = <<>>
    /\ all_hourly_data = <<>>
    /\ all_daily_data = <<>>
    /\ all_raw_data = <<>>
ScraperIdle ==
    /\ max_pages = 0
    /\ articles_per_page = 0
    /\ page_num = 0
    /\ all_articles_data = <<>>
BitcoinIdle ==
    /\ price_data = <<>>
    /\ all_price_data = <<>>

Init ==
    /\ InitMain \/ InitSamples \/ InitAlerts
    /\ WeatherIdle /\ ScraperIdle /\ BitcoinIdle /\ args = <<>>
    /\ now = StartSecond * TicksPerSecond
    /\ i = 0
    /\ all_crypto_data = <<>>
    /\ raw_data = None
    /\ sample_data = <<>>
    /\ samples_df = None
    /\ files = <<>>
    /\ ret = None
    /\ last_fetch = Fetched([kind |-> "none"], [crypto_data |-> None, printed |-> <<>>])
    /\ log = <<>>

\* main, lines 233-239: the initial fetch
MainFetch(response, latency) ==
    /\ pc = "main"
    /\ now' = now + latency
    /\ LET r == get_multiple_crypto_prices(crypto_symbols, response,
                                            Strftime(now + latency))
       IN  /\ all_crypto_data' = IF Truthy(r.crypto_data)
                                 THEN all_crypto_data \o r.crypto_data.val
                                 ELSE all_crypto_data
           /\ raw_data' = r.data
           /\ last_fetch' = Fetched(response, r)
           /\ log' = Append(log, RequestEvent(r))
    /\ pc' = "sample"
    /\ UNCHANGED <<entry, crypto_symbols, samples, interval_seconds, i,
                   sample_data, samples_df, df, files, ret>>
    /\ UNCHANGED <<weather_vars, scraper_vars, bitcoin_vars, args>>

\* faulty variant: a failed round is run again
SampleRound_retry(response, latency) ==
    /\ pc = "sample"
    /\ i < samples
    /\ now' = now + latency
    /\ LET r == get_multiple_crypto_prices(crypto_symbols, response,
                                            Strftime(now + latency))
       IN  /\ sample_data' = IF Truthy(r.crypto_data)
                             THEN sample_data \o r.crypto_data.val
                             ELSE sample_data
           /\ last_fetch' = Fetched(response, r)
           /\ log' = Append(log, RequestEvent(r))
           /\ IF r.crypto_data.isNone
              THEN pc' = "sample" /\ i' = i
              ELSE IF i < samples - 1
              THEN pc' = "sleep" /\ i' = i
              ELSE pc' = "sample" /\ i' = i + 1
    /\ UNCHANGED <<entry, crypto_symbols, samples, interval_seconds,
                   all_crypto_data, raw_data, samples_df, df, files, ret>>
    /\ UNCHANGED <<weather_vars, scraper_vars, bitcoin_vars, args>>

\* faulty variant: no sleep after a round that collected nothing
SampleRound_sleep_on_data(response, latency) ==
    /\ pc = "sample"
    /\ i < samples
    /\ now' = now + latency
    /\ LET r == get_multiple_crypto_prices(crypto_symbols, response,
                                            Strftime(now + latency))
       IN  /\ sample_data' = IF Truthy(r.crypto_data)
                             THEN sample_data \o r.crypto_data.val
                             ELSE sample_data
           /\ last_fetch' = Fetched(response, r)
           /\ log' = Append(log, RequestEvent(r))
           /\ IF Truthy(r.crypto_data) /\ i < samples - 1
              THEN pc' = "sleep" /\ i' = i
              ELSE pc' = "sample" /\ i' = i + 1
    /\ UNCHANGED <<entry, crypto_symbols, samples, interval_seconds,
                   all_crypto_data, raw_data, samples_df, df, files, ret>>
    /\ UNCHANGED <<weather_vars, scraper_vars, bitcoin_vars, args>>

\* faulty variant: the payload of a round replaces the one of the initial fetch
SampleRound_keep_payload(response, latency) ==
    /\ pc = "sample"
    /\ i < samples
    /\ now' = now + latency
    /\ LET r == get_multiple_crypto_prices(crypto_symbols, response,
                                            Strftime(now + latency))
       IN  /\ sample_data' = IF Truthy(r.crypto_data)
                             THEN sample_data \o r.crypto_data.val
                             ELSE sample_data
           /\ raw_data' = IF r.data.isNone THEN raw_data ELSE r.data
           /\ last_fetch' = Fetched(response, r)
           /\ log' = Append(log, RequestEvent(r))
    /\ IF i < samples - 1
       THEN pc' = "sleep" /\ i' = i
       ELSE pc' = "sample" /\ i' = i + 1
    /\ UNCHANGED <<entry, crypto_symbols, samples, interval_seconds,
                   all_crypto_data, samples_df, df, files, ret>>
    /\ UNCHANGED <<weather_vars, scraper_vars, bitcoin_vars, args>>

\* get_crypto_samples_over_time, lines 119-127: one round
SampleRound(response, latency) ==
    /\ pc = "sample"
    /\ i < samples
    /\ now' = now + latency
    /\ LET r == get_multiple_crypto_prices(crypto_symbols, response,
                                            Strftime(now + latency))
       IN  /\ sample_data' = IF Truthy(r.crypto_data)
                             THEN sample_data \o r.crypto_data.val
                             ELSE sample_data
           /\ last_fetch' = Fetched(response, r)
           /\ log' = Append(log, RequestEvent(r))
    /\ IF i < samples - 1
       THEN pc' = "sleep" /\ i' = i
       ELSE pc' = "sample" /\ i' = i + 1
    /\ UNCHANGED <<entry, crypto_symbols, samples, interval_seconds,
                   all_crypto_data, raw_data, samples_df, df, files, ret>>
    /\ UNCHANGED <<weather_vars, scraper_vars, bitcoin_vars, args>>

\* faulty variant: the sleep returns at once
Sleep_no_wait ==
    /\ pc = "sleep"
    /\ now' = now
    /\ log' = Append(log, SleepEvent(interval_seconds))
    /\ i' = i + 1
    /\ pc' = "sample"
    /\ UNCHANGED <<entry, crypto_symbols, samples, interval_seconds,
                   all_crypto_data, raw_data, sample_data, samples_df, df, files, ret,
                   last_fetch>>
    /\ UNCHANGED <<weather_vars, scraper_vars, bitcoin_vars, args>>

\* get_crypto_samples_over_time, lines 128-129: time.sleep(interval_seconds)
Sleep ==
    /\ pc = "sleep"
    /\ now' = now + interval_seconds * TicksPerSecond
    /\ log' = Append(log, SleepEvent(interval_seconds))
    /\ i' = i + 1
    /\ pc' = "sample"
    /\ UNCHANGED <<entry, crypto_symbols, samples, interval_seconds,
                   all_crypto_data, raw_data, sample_data, samples_df, df, files, ret,
                   last_fetch>>
    /\ UNCHANGED <<weather_vars, scraper_vars, bitcoin_vars, args>>

\* get_crypto_samples_over_time, lines 131-137: the loop is over
SamplesReturn ==
    /\ pc = "sample"
    /\ i >= samples
    /\ LET returned == IF sample_data # <<>> THEN Some(DataFrame(sample_data)) ELSE None
       IN  /\ samples_df' = returned
           /\ IF entry = "main"
              THEN pc' = "main_save" /\ ret' = ret
              ELSE pc' = "done" /\ ret' = returned
    /\ UNCHANGED <<entry, now, crypto_symbols, samples, interval_seconds, i,
                   all_crypto_data, raw_data, sample_data, df, files, last_fetch, log>>
    /\ UNCHANGED <<weather_vars, scraper_vars, bitcoin_vars, args>>

\* main, lines 249-252
FinalFrame(records) == sort_values(drop_duplicates(DataFrame(records)))

\* faulty variant: the sampled records are not added to main's list
MainRecords_initial_only(collected, sampled) == collected

\* main, lines 244-245: main's list after the sampling
MainRecords(collected, sampled) ==
    IF ~sampled.isNone
    THEN collected \o to_dict_records(sampled.val)
    ELSE collected

\* main, lines 249-306: the files written and the table returned
WriteOutputs(records, raw, collection_timestamp, fs) ==
    LET final_df == FinalFrame(records)
        detailed == [k \in 1..Len(final_df) |->
                        [time |-> final_df[k].time,
                         symbol |-> final_df[k].symbol,
                         usd_price |-> final_df[k].usd_price,
                         collected_at |-> collection_timestamp]]
        main_df == final_df
        raw_data_export ==
            [collection_info |->
                [script |-> "multi_crypto_tracker.py",
                 collection_time |-> collection_timestamp,
                 cryptocurrencies |-> <<"BTC", "ETH", "DOGE">>,
                 total_records |-> Len(detailed)],
             price_data |-> to_dict_records(detailed),
             raw_api_response |-> IF Truthy(raw) THEN raw.val ELSE <<>>]
        written == ("multi_crypto_tracker.csv" :> main_df)
                   @@ ("multi_crypto_tracker_detailed.csv" :> detailed)
                   @@ ("multi_crypto_tracker_raw.json" :> raw_data_export)
                   @@ fs
    IN  [files |-> save_threshold_alerts(main_df, "multi_crypto_tracker", written).files,
         main_df |-> main_df]

\* main, lines 244-320
MainSave ==
    /\ pc = "main_save"
    /\ LET records == MainRecords(all_crypto_data, samples_df)
       IN  /\ all_crypto_data' = records
           /\ IF records # <<>>
              THEN LET out == WriteOutputs(records, raw_data, Strftime(now), files)
                   IN  /\ files' = out.files
                       /\ df' = out.main_df
                       /\ ret' = Some(out.main_df)
                       /\ log' = log
              ELSE /\ log' = Append(log, PrintEvent("No cryptocurrency data collected"))
                   /\ ret' = None
                   /\ UNCHANGED <<files, df>>
    /\ pc' = "exit"
    /\ UNCHANGED <<entry, now, crypto_symbols, samples, interval_seconds, i,
                   raw_data, sample_data, samples_df, last_fetch>>
    /\ UNCHANGED <<weather_vars, scraper_vars, bitcoin_vars, args>>

\* lines 322-330
ScriptExit ==
    /\ pc = "exit"
    /\ log' = Append(log, PrintEvent(IF ~ret.isNone
                                      THEN "tracking completed successfully"
                                      ELSE "tracking failed"))
    /\ pc' = "done"
    /\ UNCHANGED <<entry, now, crypto_symbols, samples, interval_seconds, i,
                   all_crypto_data, raw_data, sample_data, samples_df, df, files, ret,
                   last_fetch>>
    /\ UNCHANGED <<weather_vars, scraper_vars, bitcoin_vars, args>>

\* a call of save_threshold_alerts(df, base_filename)
AlertsCall ==
    /\ pc = "alerts"
    /\ LET r == save_threshold_alerts(df, "multi_crypto_tracker", files)
       IN  files' = r.files /\ ret' = r.ret
    /\ pc' = "done"
    /\ UNCHANGED <<entry, now, crypto_symbols, samples, interval_seconds, i,
                   all_crypto_data, raw_data, sample_data, samples_df, df, last_fetch, log>>
    /\ UNCHANGED <<weather_vars, scraper_vars, bitcoin_vars, args>>

Next ==
    \/ \E response \in Responses(crypto_symbols), latency \in 0..MaxLatency :
          MainFetch(response, latency)
    \/ \E response \in Responses(crypto_symbols), latency \in 0..MaxLatency :
          SampleRound(response, latency)
    \/ Sleep
    \/ SamplesReturn
    \/ MainSave
    \/ ScriptExit
    \/ AlertsCall

Spec == Init /\ [][Next]_vars

\* a call of get_crypto_samples_over_time alone; the program is one thread that
\* always takes its next step: every request returns or raises within its
\* timeout and every sleep ends
SamplingInit == Init /\ entry = "get_crypto_samples_over_time"
SamplingNext ==
    \/ \E response \in Responses(crypto_symbols), latency \in 0..MaxLatency :
          SampleRound(response, latency)
    \/ Sleep
    \/ SamplesReturn
SamplingFair == SamplingInit /\ [][SamplingNext]_vars /\ WF_vars(SamplingNext)

-----------------------------------------------------------------------------
(* Vocabulary of the properties *)

PriceCsv == "multi_crypto_tracker.csv"
DetailedCsv == "multi_crypto_tracker_detailed.csv"
RawJson == "multi_crypto_tracker_raw.json"
AlertsCsv == "multi_crypto_tracker_alerts.csv"

Written(name) == name \in DOMAIN files
MainOver == entry = "main" /\ pc \in {"exit", "done"}

\* time strings and symbols in ascending order, as strings compare
TimeSymbolBefore(a, b) ==
    \/ LexLess(a.time, b.time)
    \/ a.time = b.time /\ LexLess(Ord[a.symbol], Ord[b.symbol])

Configured(symbol) == symbol \in DOMAIN PRICE_THRESHOLDS

\* C1: the price table main writes out has no two rows with the same
\* (time, symbol) and is sorted ascending by (time, symbol), whatever fetches
\* succeeded or failed.
C1_TableUniqueSorted ==
    (entry = "main" /\ Written(PriceCsv)) =>
        LET t == files[PriceCsv]
        IN  /\ \A a, b \in 1..Len(t) :
                  a # b => <<t[a].time, t[a].symbol>> # <<t[b].time, t[b].symbol>>
            /\ \A a \in 1..(Len(t) - 1) : TimeSymbolBefore(t[a], t[a + 1])

\* C1 witness: main wrote a table after collecting records that held a duplicate
\* key and were not in order of (time, symbol).
C1_Witness ==
    /\ entry = "main" /\ Written(PriceCsv)
    /\ Len(files[PriceCsv]) < Len(all_crypto_data)
    /\ \E a \in 1..(Len(all_crypto_data) - 1) :
          TimeSymbolBefore(all_crypto_data[a + 1], all_crypto_data[a])

\* C2: every row of a configured symbol gets exactly one alert row, whose type is
\* HIGH_ALERT iff price > high, LOW_ALERT iff price < low and not above high,
\* NORMAL otherwise (so price = high and price = low are NORMAL); the type
\* depends only on the symbol, the price and the bounds.
C2_Classification ==
    (pc = "done" /\ entry \in {"main", "save_threshold_alerts"}) =>
        LET alerts == IF Written(AlertsCsv) THEN files[AlertsCsv] ELSE <<>>
            rows == SelectSeq(df, LAMBDA row : Configured(row.symbol))
        IN  /\ Len(alerts) = Len(rows)
            /\ \A k \in 1..Len(alerts) :
                  LET a == alerts[k]
                      high == PRICE_THRESHOLDS[a.symbol].high
                      low == PRICE_THRESHOLDS[a.symbol].low
                  IN  /\ a.symbol = rows[k].symbol /\ a.price = rows[k].usd_price
                      /\ a.alert_type \in {"HIGH_ALERT", "LOW_ALERT", "NORMAL"}
                      /\ a.alert_type = "HIGH_ALERT" <=> a.price > high
                      /\ a.alert_type = "LOW_ALERT" <=> (a.price < low /\ ~(a.price > high))
                      /\ a.alert_type = "NORMAL" <=> (a.price <= high /\ a.price >= low)
            /\ \A j, k \in 1..Len(alerts) :
                  (alerts[j].symbol = alerts[k].symbol /\ alerts[j].price = alerts[k].price)
                      => alerts[j].alert_type = alerts[k].alert_type

\* C2 witness: alert rows written for a price equal to the high bound and for a
\* price equal to the low bound, both NORMAL, beside a HIGH_ALERT or LOW_ALERT row.
C2_Witness ==
    /\ pc = "done" /\ Written(AlertsCsv)
    /\ \E j, k \in 1..Len(files[AlertsCsv]) :
          LET a == files[AlertsCsv][j]
              b == files[AlertsCsv][k]
          IN  /\ a.price = PRICE_THRESHOLDS[a.symbol].high /\ a.alert_type = "NORMAL"
              /\ b.price = PRICE_THRESHOLDS[b.symbol].low /\ b.alert_type = "NORMAL"
    /\ \E k \in 1..Len(files[AlertsCsv]) : files[AlertsCsv][k].alert_type # "NORMAL"

\* what the latest fetch asked for; a fetch has happened
Fetching == last_fetch.response.kind # "none"

\* the request failed: no connection, a non-2xx status, a body that is not JSON,
\* or a payload in which a requested id is present without its "usd" price
LacksUsd(f) ==
    /\ f.response.kind = "ok"
    /\ \E crypto_id \in Ids(crypto_symbols) \cap DOMAIN f.response.data :
          "usd" \notin DOMAIN f.response.data[crypto_id]
FailedRequest(f) == f.response.kind \in FailureKinds \/ LacksUsd(f)

\* C3: a record whose symbol has no configured bounds is never classified: the
\* fetch prints one warning per configured record and none for the others, the
\* alerts file holds no row for it, and the record stays in the returned prices.
C3_UnconfiguredNeverClassified ==
    /\ (Fetching /\ ~last_fetch.crypto_data.isNone) =>
          LET got == last_fetch.crypto_data.val
              configured == SelectSeq(got, LAMBDA r : Configured(r.symbol))
          IN  /\ Len(last_fetch.printed) = Len(configured)
              /\ \A k \in 1..Len(configured) :
                    /\ last_fetch.printed[k].symbol = configured[k].symbol
                    /\ last_fetch.printed[k].price = configured[k].usd_price
              /\ \A k \in 1..Len(got) :
                    ~Configured(got[k].symbol) =>
                        /\ \A w \in 1..Len(last_fetch.printed) :
                              last_fetch.printed[w].symbol # got[k].symbol
                        /\ (entry = "get_crypto_samples_over_time" /\ pc = "done") =>
                              \E j \in 1..Len(ret.val) : ret.val[j] = got[k]
    /\ Written(AlertsCsv) =>
          /\ \A k \in 1..Len(files[AlertsCsv]) : Configured(files[AlertsCsv][k].symbol)
          /\ entry = "save_threshold_alerts" =>
                Len(files[AlertsCsv]) =
                    Len(SelectSeq(df, LAMBDA row : Configured(row.symbol)))

\* C3 witness: a call returned a SOLANA record beside a BTC record, printed a
\* warning for BTC only, and both records are in the returned table.
C3_Witness ==
    /\ entry = "get_crypto_samples_over_time" /\ pc = "done"
    /\ ~ret.isNone /\ ~last_fetch.crypto_data.isNone
    /\ \E k \in 1..Len(last_fetch.crypto_data.val) :
          /\ last_fetch.crypto_data.val[k].symbol = "SOLANA"
          /\ \E j \in 1..Len(ret.val) : ret.val[j] = last_fetch.crypto_data.val[k]
    /\ Len(last_fetch.printed) = 1
    /\ last_fetch.printed[1].symbol = "BTC"

\* a step that is one sampling round
RoundStep == pc = "sample" /\ i < samples /\ log' # log
\* a step that leaves the loop of get_crypto_samples_over_time
ReturnStep == pc = "sample" /\ pc' \in {"done", "main_save"}

RECURSIVE CountOps(_, _)
CountOps(events, op) ==
    IF events = <<>> THEN 0
    ELSE (IF Head(events).op = op THEN 1 ELSE 0) + CountOps(Tail(events), op)
NumRequests == CountOps(log, "request")
NumSleeps == CountOps(log, "sleep")
InitialFetches == IF entry = "main" /\ pc # "main" THEN 1 ELSE 0

\* C4: a sampling round whose request fails adds nothing to the collected list,
\* even with records of earlier symbols already built, and the loop goes on:
\* it sleeps and runs the next round, and has run every round when it returns.
C4_FailedRoundDropped ==
    [][/\ (RoundStep /\ FailedRequest(last_fetch')) =>
             /\ sample_data' = sample_data
             /\ last_fetch'.crypto_data = None
             /\ IF i < samples - 1 THEN pc' = "sleep" ELSE i' = samples
       /\ ReturnStep => NumRequests - InitialFetches = samples]_vars

\* C4 witness: a later round failed on a payload without the last symbol's price,
\* after the records of the earlier symbols of that round were built, and the
\* records of an earlier round are still held.
C4_Witness ==
    /\ pc = "sleep" /\ i >= 1
    /\ LacksUsd(last_fetch)
    /\ Len(crypto_symbols) >= 2
    /\ "usd" \in DOMAIN last_fetch.response.data[crypto_symbols[1]]
    /\ sample_data # <<>>

\* the symbol a requested id is recorded under
ExpectedSymbol(crypto_id) ==
    IF crypto_id \in DOMAIN crypto_map THEN crypto_map[crypto_id] ELSE Upper(crypto_id)

\* C5 as stated: every fetch whose HTTP request succeeds (a 2xx answer whose
\* JSON payload prices every id it contains) returns exactly one record for each
\* requested symbol, all with the same timestamp.
C5_OnePerRequested ==
    (Fetching /\ last_fetch.response.kind = "ok" /\ ~LacksUsd(last_fetch)) =>
        /\ ~last_fetch.crypto_data.isNone
        /\ LET got == last_fetch.crypto_data.val
           IN  /\ Len(got) = Len(crypto_symbols)
               /\ \A k \in 1..Len(got) :
                     /\ got[k].symbol = ExpectedSymbol(crypto_symbols[k])
                     /\ got[k].time = got[1].time

\* C5 amended: a fetch whose request succeeds with a payload that prices every
\* requested id it contains returns exactly one record (time, symbol, usd price)
\* for each requested id present in the payload, in request order and none for
\* an id the payload omits, all with the same timestamp.
C5_OnePerPresent ==
    (Fetching /\ last_fetch.response.kind = "ok" /\ ~LacksUsd(last_fetch)) =>
        /\ ~last_fetch.crypto_data.isNone
        /\ LET got == last_fetch.crypto_data.val
               data == last_fetch.response.data
               present == SelectSeq(crypto_symbols, LAMBDA c : c \in DOMAIN data)
           IN  /\ Len(got) = Len(present)
               /\ \A k \in 1..Len(got) :
                     /\ got[k].symbol = ExpectedSymbol(present[k])
                     /\ got[k].usd_price = data[present[k]].usd
                     /\ got[k].time = got[1].time

\* C5 witness: three ids requested, the request succeeded, the payload held one
\* of them, and one record came back.
C5_Witness ==
    /\ Fetching /\ last_fetch.response.kind = "ok" /\ ~LacksUsd(last_fetch)
    /\ Len(crypto_symbols) = 3
    /\ DOMAIN last_fetch.response.data = {crypto_symbols[1]}
    /\ ~last_fetch.crypto_data.isNone
    /\ Len(last_fetch.crypto_data.val) = 1

Requests == SelectSeq(log, LAMBDA e : e.op = "request")
SomeRecordCollected == \E k \in 1..Len(Requests) : Requests[k].records > 0
Printed(msg) == log # <<>> /\ log[Len(log)] = PrintEvent(msg)

\* C6: when no fetch of main yields a record, main writes no file and returns
\* None and the script prints the failure message; when at least one record was
\* collected, main writes the price CSV, the detailed CSV and the JSON file and
\* returns the table, however many fetches failed.
C6_OutputsIffCollected ==
    MainOver =>
        IF SomeRecordCollected
        THEN /\ Written(PriceCsv) /\ Written(DetailedCsv) /\ Written(RawJson)
             /\ ret = Some(files[PriceCsv])
             /\ pc = "done" => Printed("tracking completed successfully")
        ELSE /\ DOMAIN files = {}
             /\ ret = None
             /\ pc = "done" => Printed("tracking failed")

\* C6 witness: main ended with its files written although the initial fetch and
\* two of the three rounds yielded nothing.
C6_Witness ==
    /\ MainOver /\ pc = "done"
    /\ Written(PriceCsv) /\ Written(DetailedCsv) /\ Written(RawJson)
    /\ raw_data = None
    /\ Cardinality({k \in 1..Len(Requests) : Requests[k].records = 0}) = 3
    /\ FailedRequest(last_fetch)

\* C7: whenever main writes the price CSV it writes the alerts CSV, which holds
\* one alert row for every row of the price CSV: same time, symbol and price.
C7_AlertPerPriceRow ==
    (entry = "main" /\ Written(PriceCsv)) =>
        /\ Written(AlertsCsv)
        /\ Len(files[AlertsCsv]) = Len(files[PriceCsv])
        /\ \A k \in 1..Len(files[PriceCsv]) :
              /\ files[AlertsCsv][k].time = files[PriceCsv][k].time
              /\ files[AlertsCsv][k].symbol = files[PriceCsv][k].symbol
              /\ files[AlertsCsv][k].price = files[PriceCsv][k].usd_price

\* C7 witness: main wrote a price CSV with rows inside and outside their bands.
C7_Witness ==
    /\ entry = "main" /\ Written(PriceCsv) /\ Written(AlertsCsv)
    /\ \E j, k \in 1..Len(files[AlertsCsv]) :
          /\ files[AlertsCsv][j].alert_type = "NORMAL"
          /\ files[AlertsCsv][k].alert_type = "HIGH_ALERT"

\* rounds of get_crypto_samples_over_time begun so far
RoundsRun == IF pc = "sleep" THEN i + 1 ELSE i

\* C8: no fetch is retried: every round issues one request whatever its outcome,
\* get_crypto_samples_over_time with samples = n issues n requests and main
\* issues 1 + 3.
C8_OneRequestPerRound ==
    entry \in {"main", "get_crypto_samples_over_time"} =>
        /\ NumRequests = InitialFetches + RoundsRun
        /\ (entry = "get_crypto_samples_over_time" /\ pc = "done") => NumRequests = samples
        /\ MainOver => NumRequests = 1 + 3

\* C8 witness: main ended after four requests of which the first and the last
\* failed.
C8_Witness ==
    /\ MainOver /\ NumRequests = 4
    /\ raw_data = None /\ Requests[1].records = 0
    /\ FailedRequest(last_fetch)

\* the requests and sleeps of get_crypto_samples_over_time, in order
SamplingOps ==
    LET ops == SelectSeq(log, LAMBDA e : e.op \in {"request", "sleep"})
    IN  IF entry = "main" /\ ops # <<>> THEN Tail(ops) ELSE ops
SamplingOver == pc \in {"main_save", "exit", "done"}

\* requests and sleeps alternate, starting with a request and never ending with
\* a sleep once the loop is over: `samples` rounds and samples - 1 sleeps
RoundsAndSleeps ==
    (entry \in {"main", "get_crypto_samples_over_time"} /\ samples >= 1) =>
        /\ \A k \in 1..Len(SamplingOps) :
              SamplingOps[k].op = IF k % 2 = 1 THEN "request" ELSE "sleep"
        /\ Len(SamplingOps) <= 2 * samples - 1
        /\ SamplingOver =>
              /\ Len(SamplingOps) = 2 * samples - 1
              /\ NumRequests - InitialFetches = samples
              /\ NumSleeps = samples - 1

\* C9: for samples >= 1 and any pattern of failures, get_crypto_samples_over_time
\* terminates, after exactly `samples` rounds and samples - 1 sleeps: a sleep
\* follows every round but the last, failed rounds included, and none follows
\* the last.
C9_TerminatesAfterRounds == <>(pc = "done") /\ []RoundsAndSleeps

\* C9 witness: the call ended after three rounds and two sleeps, the first round
\* having collected nothing and the last having failed.
C9_Witness ==
    /\ entry = "get_crypto_samples_over_time" /\ pc = "done"
    /\ samples = 3 /\ NumSleeps = 2
    /\ Requests[1].records = 0
    /\ FailedRequest(last_fetch)

RECURSIVE RecordsBefore(_)
\* records contributed by the requests before the f-th
RecordsBefore(f) == IF f <= 1 THEN 0 ELSE RecordsBefore(f - 1) + Requests[f - 1].records

\* the fetch (1: the initial fetch, 2..4: the rounds) that collected the j-th
\* record of main's list
FetchOf(j) ==
    CHOOSE f \in 1..Len(Requests) :
        RecordsBefore(f) < j /\ j <= RecordsBefore(f) + Requests[f].records

Seconds(time) == 60 * time[1] + time[2]
SameKey(a, b) == a.time = b.time /\ a.symbol = b.symbol

\* C10 as stated: records of different fetches of main never share a timestamp,
\* and the deduplication removes no record.
C10_DedupNeverRemoves ==
    MainOver =>
        /\ \A j, k \in 1..Len(all_crypto_data) :
              FetchOf(j) # FetchOf(k) => all_crypto_data[j].time # all_crypto_data[k].time
        /\ Written(PriceCsv) => Len(files[PriceCsv]) = Len(all_crypto_data)

\* C10 amended: consecutive sampling rounds are separated by the inter-sample
\* delay, so records of different sampling rounds never share a timestamp; no
\* delay separates the initial fetch from the first round, whose records may
\* carry the same timestamp, and the deduplication removes exactly the first
\* round's records that repeat a (time, symbol) of the initial fetch.
C10_DedupOnlyInitialVsFirstRound ==
    MainOver =>
        /\ \A j, k \in 1..Len(all_crypto_data) :
              FetchOf(j) < FetchOf(k) =>
                  IF FetchOf(j) >= 2
                  THEN Seconds(all_crypto_data[k].time) - Seconds(all_crypto_data[j].time)
                          >= 15 * (FetchOf(k) - FetchOf(j))
                  ELSE Seconds(all_crypto_data[k].time) >= Seconds(all_crypto_data[j].time)
        /\ Written(PriceCsv) =>
              Len(all_crypto_data) - Len(files[PriceCsv]) =
                  Cardinality({k \in 1..Len(all_crypto_data) :
                      /\ FetchOf(k) = 2
                      /\ \E j \in 1..Len(all_crypto_data) :
                            FetchOf(j) = 1 /\ SameKey(all_crypto_data[j], all_crypto_data[k])})

\* C10 witness: main wrote fewer rows than it collected: the first round repeated
\* the timestamp of the initial fetch.
C10_Witness ==
    /\ MainOver /\ Written(PriceCsv)
    /\ Len(files[PriceCsv]) < Len(all_crypto_data)
    /\ \E j, k \in 1..Len(all_crypto_data) :
          FetchOf(j) = 1 /\ FetchOf(k) = 2 /\ SameKey(all_crypto_data[j], all_crypto_data[k])

\* the latest fetch asked for the default ids and the API answered
\* {"bitcoin": {"usd": 114000}}
BitcoinOnlyScenario ==
    /\ Fetching
    /\ crypto_symbols = DefaultSymbols
    /\ last_fetch.response.kind = "ok"
    /\ DOMAIN last_fetch.response.data = {"bitcoin"}
    /\ "usd" \in DOMAIN last_fetch.response.data.bitcoin
    /\ last_fetch.response.data.bitcoin.usd = 11400000

\* C11: when the API answers {"bitcoin": {"usd": 114000}} to a poll for the
\* default ids, the poll yields exactly one record, of symbol BTC and price
\* 114000; the fetch warns HIGH ALERT for it and save_threshold_alerts gives it
\* one row, HIGH_ALERT against the bounds low = 110000, high = 113000; a call of
\* get_crypto_samples_over_time for one round returns that one record.
C11_BitcoinOnlyHighAlert ==
    BitcoinOnlyScenario =>
        /\ ~last_fetch.crypto_data.isNone
        /\ LET got == last_fetch.crypto_data.val
               saved == save_threshold_alerts(DataFrame(got), "multi_crypto_tracker", <<>>)
           IN  /\ Len(got) = 1
               /\ got[1].symbol = "BTC" /\ got[1].usd_price = 11400000
               /\ Len(last_fetch.printed) = 1
               /\ last_fetch.printed[1].kind = "HIGH ALERT"
               /\ last_fetch.printed[1].symbol = "BTC"
               /\ ~saved.ret.isNone
               /\ Len(saved.ret.val) = 1
               /\ saved.ret.val[1].alert_type = "HIGH_ALERT"
               /\ saved.ret.val[1].threshold_low = 11000000
               /\ saved.ret.val[1].threshold_high = 11300000
               /\ saved.files[AlertsCsv] = saved.ret.val
               /\ (entry = "get_crypto_samples_over_time" /\ pc = "done" /\ samples = 1) =>
                     ret = Some(DataFrame(got))
               /\ (entry = "main" /\ pc = "sample" /\ i = 0) => all_crypto_data = got

\* C11 witness: a call of get_crypto_samples_over_time for one round of the
\* default ids ended, the API having quoted bitcoin alone at 114000, and returned
\* one record.
C11_Witness ==
    /\ BitcoinOnlyScenario
    /\ entry = "get_crypto_samples_over_time" /\ pc = "done" /\ samples = 1
    /\ ~ret.isNone /\ Len(ret.val) = 1 /\ ret.val[1].symbol = "BTC"

\* the console word of check_price_thresholds for an alert_type of the file
ConsoleKind == [HIGH_ALERT |-> "HIGH ALERT", LOW_ALERT |-> "LOW ALERT",
                NORMAL |-> "NORMAL"]

\* the rows for which check_price_thresholds returns a warning
Warned(frame) ==
    SelectSeq(frame, LAMBDA row : check_price_thresholds(row.symbol, row.usd_price) # <<>>)

\* the alert rows of save_threshold_alerts match, one for one and in order, the
\* warnings that check_price_thresholds gives for the rows of frame
Agree(frame, alerts) ==
    LET warned == Warned(frame)
    IN  /\ Len(alerts) = Len(warned)
        /\ \A k \in 1..Len(alerts) :
              LET w == check_price_thresholds(warned[k].symbol, warned[k].usd_price)
              IN  /\ Len(w) = 1
                  /\ alerts[k].symbol = warned[k].symbol
                  /\ alerts[k].price = warned[k].usd_price
                  /\ w[1].kind = ConsoleKind[alerts[k].alert_type]

\* C21: the two classifiers agree: for every symbol and price the warning of
\* check_price_thresholds says HIGH ALERT, LOW ALERT or NORMAL exactly when
\* save_threshold_alerts gives the row HIGH_ALERT, LOW_ALERT or NORMAL, and
\* there is no warning exactly when there is no row. Stated of a call of
\* save_threshold_alerts on any table, and of the warnings printed by a fetch
\* against the alert rows of the records of that fetch.
C21_ClassifiersAgree ==
    /\ (entry = "save_threshold_alerts" /\ pc = "done") =>
          /\ Agree(df, IF ret.isNone THEN <<>> ELSE ret.val)
          /\ ret.isNone <=> Warned(df) = <<>>
    /\ Truthy(last_fetch.crypto_data) =>
          /\ Agree(last_fetch.crypto_data.val, AlertRows(last_fetch.crypto_data.val))
          /\ Len(last_fetch.printed) = Len(AlertRows(last_fetch.crypto_data.val))
          /\ \A k \in 1..Len(last_fetch.printed) :
                last_fetch.printed[k].kind =
                    ConsoleKind[AlertRows(last_fetch.crypto_data.val)[k].alert_type]

\* C21 witness: save_threshold_alerts was called on a table of an unconfigured
\* symbol and of bitcoin quoted on its high bound, and gave the one row NORMAL.
C21_Witness ==
    /\ entry = "save_threshold_alerts" /\ pc = "done"
    /\ Len(df) = 2
    /\ df[1].symbol = "SOLANA"
    /\ df[2].symbol = "BTC" /\ df[2].usd_price = PRICE_THRESHOLDS.BTC.high
    /\ ~ret.isNone /\ Len(ret.val) = 1 /\ ret.val[1].alert_type = "NORMAL"

\* C22: the raw_api_response of the multi-crypto JSON file is the payload of
\* main's initial fetch only: main's first step keeps the payload of its fetch
\* when the fetch succeeded and nothing when it failed, no later step (no
\* sampling round) changes what is kept, and the file holds the payload kept,
\* or the empty object when none is kept.
C22_RawResponseOfInitialFetch ==
    /\ [][pc = "main" =>
             raw_data' = IF last_fetch'.crypto_data.isNone
                         THEN None
                         ELSE Some(last_fetch'.response.data)]_vars
    /\ [][pc # "main" => raw_data' = raw_data]_vars
    /\ []((entry = "main" /\ Written(RawJson)) =>
             files[RawJson].raw_api_response =
                 IF raw_data.isNone THEN <<>> ELSE raw_data.val)

\* C22 witness: main's initial fetch failed, a sampling round succeeded, and the
\* JSON file was written with records in price_data and the empty object as
\* raw_api_response.
C22_Witness ==
    /\ MainOver /\ Written(RawJson)
    /\ raw_data.isNone
    /\ files[RawJson].raw_api_response = <<>>
    /\ files[RawJson].price_data # <<>>

-----------------------------------------------------------------------------
(* Part 2: extended-hw-part2/vietnam_weather_data.py                         *)
(*   - wind speeds and gusts are counted in tenths of km/h (the API quotes   *)
(*     them with one decimal) and wind indexes in tenths; with s and g in    *)
(*     tenths, (s/10 * 0.7 + g/10 * 0.3) / 50 * 100 is (7s + 3g) / 5 tenths; *)
(*     a fifth is never half-way between two tenths, so the floating-point   *)
(*     rounding agrees with the exact one;                                   *)
(*   - a direction is a whole number of degrees;                             *)
(*   - a JSON null is None in the payload and NaN in a DataFrame;            *)
(*   - the city names are written without their diacritics.                  *)

NaN == None

\* n / d rounded to the nearest integer, halves to the even one (d > 0):
\* Python's round() and Series.round()
RoundHalfEven(n, d) ==
    LET q == n \div d
        r == n % d
    IN  IF 2 * r < d THEN q
        ELSE IF 2 * r > d THEN q + 1
        ELSE IF q % 2 = 0 THEN q ELSE q + 1

\* Series.clip(lower, upper), one cell
Clip(v, lower, upper) == IF v < lower THEN lower ELSE IF v > upper THEN upper ELSE v

\* faulty variant: the index is not clipped
wind_index_unclipped(speed, gusts) ==
    IF speed.isNone \/ gusts.isNone THEN NaN
    ELSE Some(RoundHalfEven(7 * speed.val + 3 * gusts.val, 5))

\* lines 42-44 and 70-72, one cell:
\* ((speed * 0.7 + gusts * 0.3) / 50 * 100).round(1).clip(0, 100)
wind_index(speed, gusts) ==
    IF speed.isNone \/ gusts.isNone THEN NaN
    ELSE Some(Clip(RoundHalfEven(7 * speed.val + 3 * gusts.val, 5), 0, 1000))

directions == <<"N", "NNE", "NE", "ENE", "E", "ESE", "SE", "SSE",
                "S", "SSW", "SW", "WSW", "W", "WNW", "NW", "NNW">>

\* faulty variant: the sector is found by truncation
get_wind_direction_name_floor(degrees) ==
    IF degrees.isNone THEN "Unknown"
    ELSE LET idx == ((2 * degrees.val) \div 45) % 16
         IN  directions[idx + 1]

\* lines 47-53: round(degrees / 22.5) % 16, degrees / 22.5 being 2 * degrees / 45
get_wind_direction_name(degrees) ==
    IF degrees.isNone THEN "Unknown"
    ELSE LET idx == RoundHalfEven(2 * degrees.val, 45) % 16
         IN  directions[idx + 1]

HourlyKeys == {"time", "temperature_2m", "relative_humidity_2m", "wind_speed_10m",
               "wind_direction_10m", "wind_gusts_10m", "weather_code"}
DailyKeys == {"time", "temperature_2m_max", "temperature_2m_min", "precipitation_sum",
              "wind_speed_10m_max", "wind_gusts_10m_max", "wind_direction_10m_dominant"}

\* pd.DataFrame(dict of lists) raises ValueError unless the lists have one length
SameLength(cols) == Cardinality({Len(cols[c]) : c \in DOMAIN cols}) <= 1

\* a column of nulls only keeps dtype object, and None * 0.7 raises TypeError
AllNull(col) == Len(col) > 0 /\ \A k \in 1..Len(col) : col[k].isNone

\* lines 29-55
HourlyFrame(city_name, h) ==
    [k \in 1..Len(h.time) |->
        [city |-> city_name,
         datetime |-> h.time[k],
         temperature_c |-> h.temperature_2m[k],
         humidity_percent |-> h.relative_humidity_2m[k],
         wind_speed_kmh |-> h.wind_speed_10m[k],
         wind_direction_deg |-> h.wind_direction_10m[k],
         wind_gusts_kmh |-> h.wind_gusts_10m[k],
         weather_code |-> h.weather_code[k],
         wind_index |-> wind_index(h.wind_speed_10m[k], h.wind_gusts_10m[k]),
         wind_direction_name |-> get_wind_direction_name(h.wind_direction_10m[k])]]

\* lines 58-75
DailyFrame(city_name, d) ==
    [k \in 1..Len(d.time) |->
        [city |-> city_name,
         date |-> d.time[k],
         temp_max_c |-> d.temperature_2m_max[k],
         temp_min_c |-> d.temperature_2m_min[k],
         precipitation_mm |-> d.precipitation_sum[k],
         wind_speed_max_kmh |-> d.wind_speed_10m_max[k],
         wind_gusts_max_kmh |-> d.wind_gusts_10m_max[k],
         wind_direction_dominant_deg |-> d.wind_direction_10m_dominant[k],
         wind_index_max |-> wind_index(d.wind_speed_10m_max[k], d.wind_gusts_10m_max[k]),
         wind_direction_dominant_name |->
             get_wind_direction_name(d.wind_direction_10m_dominant[k])]]

\* the try block raised while building the hourly table (lines 29-55)
HourlyRaises(data) ==
    \/ "hourly" \notin DOMAIN data
    \/ ~(HourlyKeys \subseteq DOMAIN data.hourly)
    \/ ~SameLength([c \in HourlyKeys |-> data.hourly[c]])
    \/ AllNull(data.hourly.wind_speed_10m)
    \/ AllNull(data.hourly.wind_gusts_10m)

\* the try block raised while building the daily table (lines 58-75)
DailyRaises(data) ==
    \/ "daily" \notin DOMAIN data
    \/ ~(DailyKeys \subseteq DOMAIN data.daily)
    \/ ~SameLength([c \in DailyKeys |-> data.daily[c]])
    \/ AllNull(data.daily.wind_speed_10m_max)
    \/ AllNull(data.daily.wind_gusts_10m_max)

NoWeather == [hourly_df |-> None, daily_df |-> None, raw_data |-> None]

\* lines 9-82; response: what requests.get / raise_for_status / json() gave
get_weather_data(city_name, response) ==
    IF response.kind # "ok" THEN NoWeather
    ELSE LET data == response.data
         IN  IF HourlyRaises(data) \/ DailyRaises(data) THEN NoWeather
             ELSE [hourly_df |-> Some(HourlyFrame(city_name, data.hourly)),
                   daily_df |-> Some(DailyFrame(city_name, data.daily)),
                   raw_data |-> Some(data)]

-----------------------------------------------------------------------------
(* vietnam_weather_data.py: inputs *)

MaxForecasts == 2
MaxWind == 12

Cities == <<"Ha Noi", "Ho Chi Minh", "Da Nang", "Quy Nhon">>

\* an "hourly" object of the API: one list per requested variable
Hourly(times, speeds, dirs, gusts) ==
    [time |-> times,
     temperature_2m |-> [k \in DOMAIN times |-> Some(250 + k)],
     relative_humidity_2m |-> [k \in DOMAIN times |-> Some(80)],
     wind_speed_10m |-> speeds,
     wind_direction_10m |-> dirs,
     wind_gusts_10m |-> gusts,
     weather_code |-> [k \in DOMAIN times |-> Some(3)]]

\* a "daily" object of the API
Daily(dates, speeds, dirs, gusts) ==
    [time |-> dates,
     temperature_2m_max |-> [k \in DOMAIN dates |-> Some(310)],
     temperature_2m_min |-> [k \in DOMAIN dates |-> Some(240)],
     precipitation_sum |-> [k \in DOMAIN dates |-> Some(0)],
     wind_speed_10m_max |-> speeds,
     wind_gusts_10m_max |-> gusts,
     wind_direction_10m_dominant |-> dirs]

\* a forecast of two hours and one day; v varies the winds
Forecast(v) ==
    [hourly |-> Hourly(<<"T00:00", "T01:00">>,
                       <<Some(150 * v + 50), Some(3 * v)>>,
                       <<Some((130 * v) % 361), Some(355)>>,
                       <<Some(300 * v + 100), Some(7 * v)>>),
     daily |-> Daily(<<"D1">>, <<Some(150 * v + 50)>>, <<Some((130 * v) % 361)>>,
                     <<Some(300 * v + 100)>>)]

\* a forecast whose second hour has no wind speed and no wind direction
NullWind ==
    [hourly |-> Hourly(<<"T00:00", "T01:00">>,
                       <<Some(200), None>>, <<Some(10), None>>, <<Some(400), Some(90)>>),
     daily |-> Daily(<<"D1">>, <<Some(200)>>, <<Some(10)>>, <<Some(400)>>)]

\* a payload without its "daily" object
NoDaily == [hourly |-> Forecast(1).hourly]

\* a payload whose hourly lists differ in length
Ragged ==
    [hourly |-> [Forecast(1).hourly EXCEPT !.wind_speed_10m = <<Some(200)>>],
     daily |-> Forecast(1).daily]

WeatherResponses ==
    {[kind |-> f] : f \in FailureKinds}
    \cup {[kind |-> "ok", data |-> d] :
            d \in {Forecast(v) : v \in 1..MaxForecasts} \cup {NullWind, NoDaily, Ragged}}

\* a forecast of one hour and one day with the given winds
OneHour(speed, gusts, degrees) ==
    [kind |-> "ok",
     data |-> [hourly |-> Hourly(<<"T00:00">>, <<Some(speed)>>, <<Some(degrees)>>,
                                 <<Some(gusts)>>),
               daily |-> Daily(<<"D1">>, <<Some(speed)>>, <<Some(degrees)>>,
                               <<Some(gusts)>>)]]

\* wind speeds and gusts, in tenths of km/h: every small value, and values
\* about the speeds at which the index reaches 100
WindSamples == (-2..MaxWind) \cup {200, 400, 499, 500, 501, 714, 715, 1000}
Degrees == 0..360

\* the calls of get_weather_data made one at a time
WeatherCalls ==
    {[city_name |-> Cities[1], response |-> OneHour(s, g, 0)] :
        s \in WindSamples, g \in WindSamples}
    \cup {[city_name |-> Cities[1], response |-> OneHour(0, 0, d)] : d \in Degrees}
    \cup {[city_name |-> Cities[1], response |-> r] : r \in WeatherResponses}

-----------------------------------------------------------------------------
(* vietnam_weather_data.py: state machine *)

WeatherRequestEvent(city_name, response, r) ==
    [op |-> "request", city |-> city_name, answer |-> response.kind,
     ok |-> ~r.hourly_df.isNone]

\* pd.concat(frames, ignore_index=True)
RECURSIVE concat(_)
concat(frames) == IF frames = <<>> THEN <<>> ELSE Head(frames) \o concat(Tail(frames))

\* df["collected_at"] = timestamp
WithCollectedAt(frame, timestamp) ==
    [k \in 1..Len(frame) |->
        [c \in DOMAIN frame[k] \cup {"collected_at"} |->
            IF c = "collected_at" THEN timestamp ELSE frame[k][c]]]

WeatherInitMain ==
    /\ entry = "vietnam_weather_data.main"
    /\ pc = "fetch_city"
    /\ cities_iter = Cities
    /\ args = <<>>

WeatherInitCall ==
    /\ entry = "get_weather_data"
    /\ pc = "call"
    /\ cities_iter = <<>>
    /\ args \in WeatherCalls

WeatherInit ==
    /\ WeatherInitMain \/ WeatherInitCall
    /\ now = StartSecond * TicksPerSecond
    /\ all_hourly_data = <<>>
    /\ all_daily_data = <<>>
    /\ all_raw_data = <<>>
    /\ files = <<>>
    /\ ret = None
    /\ log = <<>>
    /\ ScraperIdle /\ BitcoinIdle
    /\ crypto_symbols = <<>> /\ samples = 0 /\ interval_seconds = 0 /\ i = 0
    /\ all_crypto_data = <<>> /\ raw_data = None /\ sample_data = <<>>
    /\ samples_df = None /\ df = <<>>
    /\ last_fetch = Fetched([kind |-> "none"], [crypto_data |-> None, printed |-> <<>>])

\* faulty variant: the loop ends at the first city that fails
FetchCity_stop_on_error(response, latency) ==
    /\ pc = "fetch_city"
    /\ cities_iter # <<>>
    /\ now' = now + latency
    /\ LET city_name == Head(cities_iter)
           r == get_weather_data(city_name, response)
       IN  /\ IF ~r.hourly_df.isNone /\ ~r.daily_df.isNone
              THEN /\ all_hourly_data' = Append(all_hourly_data, r.hourly_df.val)
                   /\ all_daily_data' = Append(all_daily_data, r.daily_df.val)
                   /\ all_raw_data' = (city_name :> r.raw_data.val) @@ all_raw_data
                   /\ cities_iter' = Tail(cities_iter)
              ELSE /\ UNCHANGED <<all_hourly_data, all_daily_data, all_raw_data>>
                   /\ cities_iter' = <<>>
           /\ log' = Append(log, WeatherRequestEvent(city_name, response, r))
    /\ UNCHANGED <<entry, pc, files, ret, args, samples, interval_seconds, i, samples_df>>
    /\ UNCHANGED <<crypto_vars, scraper_vars, bitcoin_vars>>

\* main, lines 205-213: one city
FetchCity(response, latency) ==
    /\ pc = "fetch_city"
    /\ cities_iter # <<>>
    /\ now' = now + latency
    /\ LET city_name == Head(cities_iter)
           r == get_weather_data(city_name, response)
       IN  /\ IF ~r.hourly_df.isNone /\ ~r.daily_df.isNone
              THEN /\ all_hourly_data' = Append(all_hourly_data, r.hourly_df.val)
                   /\ all_daily_data' = Append(all_daily_data, r.daily_df.val)
                   /\ all_raw_data' = (city_name :> r.raw_data.val) @@ all_raw_data
              ELSE UNCHANGED <<all_hourly_data, all_daily_data, all_raw_data>>
           /\ log' = Append(log, WeatherRequestEvent(city_name, response, r))
    /\ cities_iter' = Tail(cities_iter)
    /\ UNCHANGED <<entry, pc, files, ret, args, samples, interval_seconds, i, samples_df>>
    /\ UNCHANGED <<crypto_vars, scraper_vars, bitcoin_vars>>

\* main, lines 215-281: the loop is over
WeatherSave ==
    /\ pc = "fetch_city"
    /\ cities_iter = <<>>
    /\ IF all_hourly_data # <<>> /\ all_daily_data # <<>>
       THEN LET timestamp == Strftime(now)
                combined_hourly == WithCollectedAt(concat(all_hourly_data), timestamp)
                combined_daily == WithCollectedAt(concat(all_daily_data), timestamp)
                chart_filename == "vietnam_weather_data_charts.png"
            IN  /\ files' = ("vietnam_weather_data_hourly.csv" :> combined_hourly)
                            @@ ("vietnam_weather_data_daily.csv" :> combined_daily)
                            @@ ("vietnam_weather_data_raw.json" :> all_raw_data)
                            @@ (chart_filename :> "charts")
                            @@ files
                /\ ret' = <<Some(combined_hourly), Some(combined_daily),
                            Some(chart_filename)>>
                /\ log' = log
       ELSE /\ log' = Append(log, PrintEvent("Failed to collect weather data"))
            /\ ret' = <<None, None, None>>
            /\ files' = files
    /\ pc' = "weather_exit"
    /\ UNCHANGED <<entry, now, args, samples, interval_seconds, i, samples_df>>
    /\ UNCHANGED <<weather_vars, crypto_vars, scraper_vars, bitcoin_vars>>

\* lines 283-292
WeatherExit ==
    /\ pc = "weather_exit"
    /\ log' = Append(log, PrintEvent(IF ~ret[1].isNone /\ ~ret[2].isNone
                                      THEN "completed successfully"
                                      ELSE "collection failed"))
    /\ pc' = "done"
    /\ UNCHANGED <<entry, now, files, ret, args, samples, interval_seconds, i, samples_df>>
    /\ UNCHANGED <<weather_vars, crypto_vars, scraper_vars, bitcoin_vars>>

\* a call of get_weather_data(city_name, latitude, longitude)
WeatherCall(latency) ==
    /\ pc = "call"
    /\ entry = "get_weather_data"
    /\ now' = now + latency
    /\ LET r == get_weather_data(args.city_name, args.response)
       IN  /\ ret' = <<r.hourly_df, r.daily_df, r.raw_data>>
           /\ log' = Append(log, WeatherRequestEvent(args.city_name, args.response, r))
    /\ pc' = "done"
    /\ UNCHANGED <<entry, files, args, samples, interval_seconds, i, samples_df>>
    /\ UNCHANGED <<weather_vars, crypto_vars, scraper_vars, bitcoin_vars>>

WeatherNext ==
    \/ \E response \in WeatherResponses, latency \in 0..MaxLatency :
          FetchCity(response, latency)
    \/ WeatherSave
    \/ WeatherExit
    \/ \E latency \in 0..MaxLatency : WeatherCall(latency)

WeatherSpec == WeatherInit /\ [][WeatherNext]_vars

-----------------------------------------------------------------------------
(* vietnam_weather_data.py: properties *)

Abs(x) == IF x < 0 THEN -x ELSE x

\* a call of get_weather_data has returned its tables
WeatherCallReturned ==
    entry = "get_weather_data" /\ pc = "done" /\ ~ret[1].isNone /\ ~ret[2].isNone

\* the (speed, gusts, index) cells of the tables a call returned and of the
\* tables main has collected
WindCells ==
    LET hourly == IF WeatherCallReturned THEN ret[1].val ELSE concat(all_hourly_data)
        daily == IF WeatherCallReturned THEN ret[2].val ELSE concat(all_daily_data)
    IN  {<<hourly[k].wind_speed_kmh, hourly[k].wind_gusts_kmh, hourly[k].wind_index>> :
            k \in 1..Len(hourly)}
        \cup {<<daily[k].wind_speed_max_kmh, daily[k].wind_gusts_max_kmh,
                daily[k].wind_index_max>> : k \in 1..Len(daily)}

\* C12: for every wind speed and gust value the wind index is
\* clip((speed * 0.7 + gusts * 0.3) / 50 * 100, 0, 100) rounded to one decimal:
\* it lies in [0, 100], it is the tenth nearest to the clipped value, and
\* clipping before rounding gives what the code's rounding before clipping
\* gives; speed = 20, gusts = 40 gives 52.0.
C12_WindIndex ==
    \A cell \in WindCells :
        (~cell[1].isNone /\ ~cell[2].isNone) =>
            LET tenths == 7 * cell[1].val + 3 * cell[2].val   \* five times the value
                clipped == Clip(tenths, 0, 5000)
            IN  /\ ~cell[3].isNone
                /\ cell[3].val >= 0 /\ cell[3].val <= 1000
                /\ 2 * Abs(5 * cell[3].val - clipped) <= 5
                /\ cell[3].val = RoundHalfEven(clipped, 5)
                /\ (cell[1].val = 200 /\ cell[2].val = 400) => cell[3].val = 520

\* C12 witness: a call returned an index of 100.0 for winds whose unclipped
\* value rounds to more than 100.
C12_Witness ==
    /\ WeatherCallReturned
    /\ \E cell \in WindCells :
          /\ ~cell[1].isNone /\ ~cell[2].isNone
          /\ 7 * cell[1].val + 3 * cell[2].val > 5002
          /\ cell[3] = Some(1000)

\* the (degrees, name) cells of the tables a call returned and of the tables
\* main has collected
DirectionCells ==
    LET hourly == IF WeatherCallReturned THEN ret[1].val ELSE concat(all_hourly_data)
        daily == IF WeatherCallReturned THEN ret[2].val ELSE concat(all_daily_data)
    IN  {<<hourly[k].wind_direction_deg, hourly[k].wind_direction_name>> :
            k \in 1..Len(hourly)}
        \cup {<<daily[k].wind_direction_dominant_deg,
                daily[k].wind_direction_dominant_name>> : k \in 1..Len(daily)}

\* twice the angle between d degrees and the bearing of the k-th compass point,
\* the shorter way round
Apart(d, k) == LET t == Abs(2 * d - 45 * k) IN Min(t, 720 - t)

\* C13: for every whole direction d in 0..360 the index round(d / 22.5) % 16
\* lies in 0..15 and the name returned is the point of the sixteen-point table
\* whose bearing k * 22.5 is nearest to d, the way round through north
\* included: 355 and 360 give N, 10 gives N and 100 gives E.
C13_NearestCompassPoint ==
    \A cell \in DirectionCells :
        (~cell[1].isNone /\ cell[1].val \in 0..360) =>
            LET d == cell[1].val
            IN  /\ RoundHalfEven(2 * d, 45) % 16 \in 0..15
                /\ \E k \in 0..15 :
                      /\ cell[2] = directions[k + 1]
                      /\ \A j \in 0..15 : j # k => Apart(d, k) < Apart(d, j)
                /\ d \in {355, 360, 10} => cell[2] = "N"
                /\ d = 100 => cell[2] = "E"

\* C13 witness: a call returned N for a direction of 355 degrees.
C13_Witness ==
    /\ WeatherCallReturned
    /\ <<Some(355), "N">> \in DirectionCells

WeatherRun == entry = "vietnam_weather_data.main"
WeatherOver == WeatherRun /\ pc \in {"weather_exit", "done"}
WeatherRequests == SelectSeq(log, LAMBDA e : e.op = "request")
Succeeded ==
    {WeatherRequests[k].city : k \in {j \in 1..Len(WeatherRequests) : WeatherRequests[j].ok}}
CitiesOf(frames) ==
    UNION {{frames[k][j].city : j \in 1..Len(frames[k])} : k \in 1..Len(frames)}
WeatherFiles ==
    {"vietnam_weather_data_hourly.csv", "vietnam_weather_data_daily.csv",
     "vietnam_weather_data_raw.json", "vietnam_weather_data_charts.png"}

\* C19: in the weather collector's main the cities are fetched once each, in
\* the order of the list, whatever the earlier cities gave; the hourly, daily
\* and raw collections hold one entry for each city whose call succeeded and
\* none for a city whose fetch or parsing failed; the files are written iff at
\* least one city succeeded, and otherwise main returns (None, None, None) and
\* writes nothing.
C19_FailedCityContributesNothing ==
    WeatherRun =>
        /\ Len(WeatherRequests) = Len(Cities) - Len(cities_iter)
        /\ \A k \in 1..Len(WeatherRequests) : WeatherRequests[k].city = Cities[k]
        /\ CitiesOf(all_hourly_data) = Succeeded
        /\ CitiesOf(all_daily_data) = Succeeded
        /\ DOMAIN all_raw_data = Succeeded
        /\ Len(all_hourly_data) = Cardinality(Succeeded)
        /\ Len(all_daily_data) = Cardinality(Succeeded)
        /\ WeatherOver =>
              /\ cities_iter = <<>>
              /\ IF Succeeded # {}
                 THEN /\ DOMAIN files = WeatherFiles
                      /\ {files["vietnam_weather_data_hourly.csv"][k].city :
                            k \in 1..Len(files["vietnam_weather_data_hourly.csv"])}
                         = Succeeded
                      /\ {files["vietnam_weather_data_daily.csv"][k].city :
                            k \in 1..Len(files["vietnam_weather_data_daily.csv"])}
                         = Succeeded
                      /\ DOMAIN files["vietnam_weather_data_raw.json"] = Succeeded
                      /\ \A k \in 1..3 : ~ret[k].isNone
                 ELSE files = <<>> /\ ret = <<None, None, None>>

\* C19 witness: the first and the third city failed, the second and the fourth
\* succeeded, and the files were written.
C19_Witness ==
    /\ WeatherOver
    /\ Succeeded = {Cities[2], Cities[4]}
    /\ DOMAIN files = WeatherFiles

-----------------------------------------------------------------------------
(* Part 3: extended-hw-part1/enhanced_scraper.py and enhanced_scraper_v2.py  *)
(*   - a text is the sequence of its characters;                             *)
(*   - a URL is the sequence of its parts: scheme ("https:"), each "/" on    *)
(*     its own, host, path segments, query.                                  *)

Whitespace == {" ", "\n"}
Terminators == {".", "!", "?"}

Rep(c, n) == [k \in 1..n |-> c]

\* the least and the greatest element of a non-empty set of numbers
Least(S) == CHOOSE m \in S : \A x \in S : m <= x
Greatest(S) == CHOOSE m \in S : \A x \in S : m >= x

\* the elements of a subset of 1..n in ascending order
Ascending(S, n) == SelectSeq([k \in 1..n |-> k], LAMBDA k : k \in S)

\* str.strip()
Strip(text) ==
    IF \A k \in 1..Len(text) : text[k] \in Whitespace THEN <<>>
    ELSE LET first == CHOOSE k \in 1..Len(text) :
                          /\ text[k] \notin Whitespace
                          /\ \A j \in 1..(k - 1) : text[j] \in Whitespace
             last == CHOOSE k \in 1..Len(text) :
                         /\ text[k] \notin Whitespace
                         /\ \A j \in (k + 1)..Len(text) : text[j] \in Whitespace
         IN  SubSeq(text, first, last)

\* lines 8-14: re.sub(r'\s+', ' ', text.strip())
clean_text(text) ==
    IF text = <<>> THEN <<>>
    ELSE LET stripped == Strip(text)
             \* the characters kept: every one that is not whitespace, and the
             \* first of every run of whitespace
             kept == {k \in 1..Len(stripped) :
                         \/ stripped[k] \notin Whitespace
                         \/ stripped[k - 1] \notin Whitespace}
             order == Ascending(kept, Len(stripped))
         IN  [k \in 1..Len(order) |->
                 IF stripped[order[k]] \in Whitespace THEN " " ELSE stripped[order[k]]]

\* re.split(r'[.!?]+', text), without the empty pieces: the maximal runs of
\* characters that are not terminators, in order
SplitSentences(text) ==
    LET ends == {k \in 1..Len(text) : text[k] \in Terminators} \cup {0, Len(text) + 1}
        starts == {k \in 1..Len(text) :
                      text[k] \notin Terminators /\ (k - 1) \in ends}
        order == Ascending(starts, Len(text))
    IN  [k \in 1..Len(order) |->
            SubSeq(text, order[k], Least({e \in ends : e > order[k]}) - 1)]

\* '. '.join(sentences)
RECURSIVE Join(_)
Join(sentences) ==
    IF sentences = <<>> THEN <<>>
    ELSE IF Len(sentences) = 1 THEN sentences[1]
    ELSE sentences[1] \o <<".", " ">> \o Join(Tail(sentences))

\* lines 56-61: the first max_sentences non-empty stripped sentences, joined
FirstSentences(text, max_sentences) ==
    LET pieces == SplitSentences(text)
        stripped == [k \in 1..Len(pieces) |-> Strip(pieces[k])]
        sentences == SelectSeq(stripped, LAMBDA t : t # <<>>)
    IN  Join(SubSeq(sentences, 1, Min(max_sentences, Len(sentences))))

\* faulty variant: the marker is added to 300 characters
simple_summarize_cut300(text) ==
    IF text = <<>> THEN <<>>
    ELSE LET summary == FirstSentences(text, 3)
         IN  IF Len(summary) > 300
             THEN SubSeq(summary, 1, 300) \o <<".", ".", ".">>
             ELSE summary

\* faulty variant: a join of exactly 300 characters is cut too
simple_summarize_cut_at_300(text) ==
    IF text = <<>> THEN <<>>
    ELSE LET summary == FirstSentences(text, 3)
         IN  IF Len(summary) >= 300
             THEN SubSeq(summary, 1, 297) \o <<".", ".", ".">>
             ELSE summary

\* lines 50-67, max_sentences = 3
simple_summarize(text) ==
    IF text = <<>> THEN <<>>
    ELSE LET summary == FirstSentences(text, 3)
         IN  IF Len(summary) > 300
             THEN SubSeq(summary, 1, 297) \o <<".", ".", ".">>
             ELSE summary

\* the URL names a scheme and a host: requests.get raises MissingSchema,
\* InvalidSchema or InvalidURL for any other
IsAbsoluteUrl(url) ==
    /\ Len(url) >= 4
    /\ url[1] \in {"https:", "http:"}
    /\ url[2] = "/" /\ url[3] = "/"
    /\ url[4] # "/"

\* str.startswith('/')
StartsWithSlash(url) == url # <<>> /\ url[1] = "/"

\* urllib.parse.urljoin(base, url), base being absolute
urljoin(base, url) ==
    IF url = <<>> THEN base
    ELSE IF url[1] \in {"https:", "http:"} THEN url
    ELSE IF Len(url) >= 2 /\ url[1] = "/" /\ url[2] = "/" THEN <<base[1]>> \o url
    ELSE IF url[1] = "/" THEN SubSeq(base, 1, 4) \o url
    ELSE SubSeq(base, 1, 4) \o <<"/">> \o url

base_url == <<"https:", "/", "/", "vnexpress.net">>

\* enhanced_scraper_v2.py, lines 74-85
categories ==
    <<[name |-> "Trang chu", url |-> base_url \o <<"/">>],
      [name |-> "Thoi su", url |-> base_url \o <<"/", "thoi-su">>],
      [name |-> "Kinh doanh", url |-> base_url \o <<"/", "kinh-doanh">>],
      [name |-> "The thao", url |-> base_url \o <<"/", "the-thao">>],
      [name |-> "Giai tri", url |-> base_url \o <<"/", "giai-tri">>],
      [name |-> "Suc khoe", url |-> base_url \o <<"/", "suc-khoe">>],
      [name |-> "Doi song", url |-> base_url \o <<"/", "gia-dinh">>],
      [name |-> "Du lich", url |-> base_url \o <<"/", "du-lich">>],
      [name |-> "Khoa hoc", url |-> base_url \o <<"/", "khoa-hoc">>],
      [name |-> "So hoa", url |-> base_url \o <<"/", "so-hoa">>]>>

V1 == "scrape_vnexpress_enhanced"
V2 == "scrape_vnexpress_categories"

\* the URL of a listing page (lines 83-86; v2: line 96)
PageUrl(scraper, page) ==
    IF scraper = V2 THEN categories[page].url
    ELSE IF page = 1 THEN base_url
    ELSE base_url \o <<"?page=", ToString(page)>>

\* faulty variant: the category loop includes the end of its range
PageLimit_inclusive(scraper, pages) ==
    IF scraper = V2 THEN Min(pages + 1, Len(categories) + 1) ELSE pages

\* the pages the loop visits (line 80; v2: line 94)
PageLimit(scraper, pages) ==
    IF scraper = V2 THEN Min(pages + 1, Len(categories) + 1) - 1 ELSE pages

\* the anchor the code takes the link from: the one inside the title element
\* (line 116); v2 falls back on an anchor around or beside it (lines 141-147)
LinkElement(scraper, element) ==
    IF scraper = V2 /\ element.inner.isNone THEN element.outer ELSE element.inner

\* lines 16-48; page: what requests.get / raise_for_status gave for the URL,
\* its content being the text of the paragraphs under the first selector that
\* matches, empty when none does
extract_article_content(url, page) ==
    IF ~IsAbsoluteUrl(url) THEN <<>>
    ELSE IF page.kind # "ok" THEN <<>>
    ELSE clean_text(page.content)

\* lines 118-122 (v2: lines 150-154)
ArticleUrl(scraper, page_url, href) ==
    IF StartsWithSlash(href)
    THEN urljoin(IF scraper = V2 THEN base_url ELSE page_url, href)
    ELSE href

\* lines 132-140 (v2: lines 164-173)
ArticleData(scraper, page, title, article_url, content, t) ==
    LET common == [page |-> page,
                   title |-> title,
                   link |-> article_url,
                   content_preview |-> IF Len(content) > 200
                                       THEN SubSeq(content, 1, 200) \o <<".", ".", ".">>
                                       ELSE content,
                   summary |-> simple_summarize(content),
                   content_length |-> Len(content),
                   scraped_at |-> Strftime(t)]
    IN  IF scraper = V2
        THEN [c \in DOMAIN common \cup {"category"} |->
                 IF c = "category" THEN categories[page].name ELSE common[c]]
        ELSE common

ScraperRequestEvent(what, page, sent, ok) ==
    [op |-> "request", what |-> what, page |-> page, sent |-> sent, ok |-> ok]

\* faulty variant: an article whose content could not be read is skipped
RECURSIVE ProcessArticles_skip_failed(_, _, _, _)
ProcessArticles_skip_failed(scraper, page, elements, t) ==
    IF elements = <<>> THEN [records |-> <<>>, events |-> <<>>, t |-> t]
    ELSE LET title_element == Head(elements)
             title == clean_text(title_element.text)
             link_element == LinkElement(scraper, title_element)
         IN  IF ~link_element.isNone /\ link_element.val # <<>>
             THEN LET article_url == ArticleUrl(scraper, PageUrl(scraper, page),
                                                link_element.val)
                      content == extract_article_content(article_url,
                                                         title_element.article)
                      article_data == ArticleData(scraper, page, title, article_url,
                                                  content, t)
                      request == ScraperRequestEvent("article", page,
                                     IsAbsoluteUrl(article_url),
                                     IsAbsoluteUrl(article_url)
                                         /\ title_element.article.kind = "ok")
                  IN  IF content = <<>>
                      THEN LET rest == ProcessArticles_skip_failed(scraper, page,
                                           Tail(elements), t)
                           IN  [records |-> rest.records,
                                events |-> <<request>> \o rest.events,
                                t |-> rest.t]
                      ELSE LET rest == ProcessArticles_skip_failed(scraper, page,
                                           Tail(elements), t + TicksPerSecond)
                           IN  [records |-> <<article_data>> \o rest.records,
                                events |-> <<request, SleepEvent(1)>> \o rest.events,
                                t |-> rest.t]
             ELSE ProcessArticles_skip_failed(scraper, page, Tail(elements), t)

\* the loop of lines 110-150 (v2: lines 135-185) over the title elements still
\* to do, from time t: the records appended, the requests and sleeps made, and
\* the time at the end
RECURSIVE ProcessArticles(_, _, _, _)
ProcessArticles(scraper, page, elements, t) ==
    IF elements = <<>> THEN [records |-> <<>>, events |-> <<>>, t |-> t]
    ELSE LET title_element == Head(elements)
             title == clean_text(title_element.text)
             link_element == LinkElement(scraper, title_element)
         IN  IF ~link_element.isNone /\ link_element.val # <<>>
             THEN LET article_url == ArticleUrl(scraper, PageUrl(scraper, page),
                                                link_element.val)
                      content == extract_article_content(article_url,
                                                         title_element.article)
                      article_data == ArticleData(scraper, page, title, article_url,
                                                  content, t)
                      rest == ProcessArticles(scraper, page, Tail(elements),
                                              t + TicksPerSecond)
                  IN  [records |-> <<article_data>> \o rest.records,
                       events |-> <<ScraperRequestEvent("article", page,
                                        IsAbsoluteUrl(article_url),
                                        IsAbsoluteUrl(article_url)
                                            /\ title_element.article.kind = "ok"),
                                    SleepEvent(1)>> \o rest.events,
                       t |-> rest.t]
             ELSE ProcessArticles(scraper, page, Tail(elements), t)

-----------------------------------------------------------------------------
(* The scrapers: inputs *)

MaxPages == 3
MaxArticles == 2
MaxSentences == 4

\* article texts: two short sentences, and one sentence longer than a summary
ShortText == <<" ", "A", "a", " ", "\n", "b", ".", " ", "C", "c", "!", " ">>
LongText == Rep("a", 310) \o <<".", " ">> \o Rep("b", 5)

ArticleOk(content) == [kind |-> "ok", content |-> content]
ArticleFails == [kind |-> "connection_error"]

\* hrefs of the four shapes
AbsoluteHref == base_url \o <<"/", "a.html">>
RootRelativeHref == <<"/", "b.html">>
SchemeRelativeHref == <<"/", "/", "cdn.vnexpress.net", "/", "c.html">>
PathRelativeHref == <<"tin-tuc", "/", "d.html">>

\* a title element: its text, the href of the anchor inside it (None: no
\* anchor; the empty string: an anchor without href), the href of the anchor
\* around or beside it, and what the site answers for the article's URL
Element(text, inner, outer, article) ==
    [text |-> text, inner |-> inner, outer |-> outer, article |-> article]

Listings ==
    {<<>>,
     <<Element(<<"T", "1">>, Some(AbsoluteHref), None, ArticleOk(ShortText))>>,
     <<Element(<<" ", "T", "2">>, Some(RootRelativeHref), None, ArticleFails),
       Element(<<"T", "3">>, Some(PathRelativeHref), None, ArticleOk(ShortText)),
       Element(<<"T", "4">>, Some(AbsoluteHref), None, ArticleOk(<<>>))>>,
     <<Element(<<"T", "5">>, None, None, ArticleOk(ShortText)),
       Element(<<"T", "6">>, Some(AbsoluteHref), None, ArticleOk(LongText))>>,
     <<Element(<<"T", "7">>, Some(<<>>), Some(AbsoluteHref), ArticleOk(ShortText)),
       Element(<<"T", "8">>, None, Some(SchemeRelativeHref), ArticleOk(ShortText))>>}

PageFailureKinds == {"connection_error", "http_error"}

\* what the site answers for a listing page: title_elements are the elements
\* the title selectors find in it
PageResponses ==
    {[kind |-> f] : f \in PageFailureKinds}
    \cup {[kind |-> "ok", title_elements |-> l] : l \in Listings}

\* n sentences of len letters, each ended by a full stop and a space
SentencesText(n, len) ==
    [k \in 1..(n * (len + 2)) |->
        LET r == (k - 1) % (len + 2)
        IN  IF r < len THEN "a" ELSE IF r = len THEN "." ELSE " "]

SentenceLengths == {1, 50, 98, 99, 149, 150, 300, 301}

\* the texts simple_summarize is called with, one at a time
SummaryTexts ==
    {SentencesText(n, len) : n \in 1..MaxSentences, len \in SentenceLengths}
    \cup {<<>>, Rep(".", 301), ShortText, LongText,
          <<" ", " ">> \o Rep("b", 310) \o <<"!", "?", " ">> \o Rep("c", 5)}

-----------------------------------------------------------------------------
(* The scrapers: state machine *)

ScraperInitRun ==
    /\ entry \in {V1, V2}
    /\ pc = "scrape"
    /\ max_pages \in 1..MaxPages
    /\ articles_per_page \in 1..MaxArticles
    /\ args = <<>>

ScraperInitCall ==
    /\ entry = "simple_summarize"
    /\ pc = "call"
    /\ max_pages = 0
    /\ articles_per_page = 0
    /\ args \in {[text |-> t] : t \in SummaryTexts}

ScraperInit ==
    /\ ScraperInitRun \/ ScraperInitCall
    /\ now = StartSecond * TicksPerSecond
    /\ page_num = 0
    /\ all_articles_data = <<>>
    /\ files = <<>>
    /\ ret = None
    /\ log = <<>>
    /\ WeatherIdle /\ BitcoinIdle
    /\ crypto_symbols = <<>> /\ samples = 0 /\ interval_seconds = 0 /\ i = 0
    /\ all_crypto_data = <<>> /\ raw_data = None /\ sample_data = <<>>
    /\ samples_df = None /\ df = <<>>
    /\ last_fetch = Fetched([kind |-> "none"], [crypto_data |-> None, printed |-> <<>>])

\* faulty variant: a page that fails or is empty ends the loop
ScrapePage_stop_on_error(response) ==
    /\ pc = "scrape"
    /\ page_num < PageLimit(entry, max_pages)
    /\ LET page == page_num + 1
           request == ScraperRequestEvent("listing", page, TRUE, response.kind = "ok")
       IN  IF response.kind # "ok" \/ response.title_elements = <<>>
           THEN /\ page_num' = PageLimit(entry, max_pages)
                /\ log' = Append(log, request)
                /\ UNCHANGED <<all_articles_data, now>>
           ELSE LET elements == SubSeq(response.title_elements, 1,
                                    Min(articles_per_page,
                                        Len(response.title_elements)))
                    done == ProcessArticles(entry, page, elements, now)
                    pause == page < max_pages
                IN  /\ page_num' = page
                    /\ all_articles_data' = all_articles_data \o done.records
                    /\ log' = (log \o <<request>> \o done.events)
                              \o (IF pause THEN <<SleepEvent(2)>> ELSE <<>>)
                    /\ now' = done.t + (IF pause THEN 2 * TicksPerSecond ELSE 0)
    /\ last_fetch' = [response |-> response]
    /\ UNCHANGED <<entry, pc, files, ret, args, max_pages, articles_per_page,
                   samples, interval_seconds, i, samples_df>>
    /\ UNCHANGED <<crypto_symbols, all_crypto_data, raw_data, sample_data, df>>
    /\ UNCHANGED <<weather_vars, bitcoin_vars>>

\* faulty variant: the CSV is rewritten after every page that gave records
ScrapePage_save_each_page(response) ==
    /\ pc = "scrape"
    /\ page_num < PageLimit(entry, max_pages)
    /\ LET page == page_num + 1
           request == ScraperRequestEvent("listing", page, TRUE, response.kind = "ok")
       IN  /\ page_num' = page
           /\ IF response.kind # "ok" \/ response.title_elements = <<>>
              THEN /\ log' = Append(log, request)
                   /\ UNCHANGED <<all_articles_data, now, files>>
              ELSE LET elements == SubSeq(response.title_elements, 1,
                                       Min(articles_per_page,
                                           Len(response.title_elements)))
                       done == ProcessArticles(entry, page, elements, now)
                       pause == page < max_pages
                   IN  /\ all_articles_data' = all_articles_data \o done.records
                       /\ files' = ("vnexpress_articles.csv" :>
                                       (all_articles_data \o done.records)) @@ files
                       /\ log' = (log \o <<request>> \o done.events)
                                 \o (IF pause THEN <<SleepEvent(2)>> ELSE <<>>)
                       /\ now' = done.t + (IF pause THEN 2 * TicksPerSecond ELSE 0)
    /\ last_fetch' = [response |-> response]
    /\ UNCHANGED <<entry, pc, ret, args, max_pages, articles_per_page,
                   samples, interval_seconds, i, samples_df>>
    /\ UNCHANGED <<crypto_symbols, all_crypto_data, raw_data, sample_data, df>>
    /\ UNCHANGED <<weather_vars, bitcoin_vars>>

\* one iteration of the loop of lines 80-161 (v2: lines 94-196)
\* last_fetch keeps what the site answered for the page
ScrapePage(response) ==
    /\ pc = "scrape"
    /\ page_num < PageLimit(entry, max_pages)
    /\ LET page == page_num + 1
           request == ScraperRequestEvent("listing", page, TRUE, response.kind = "ok")
       IN  /\ page_num' = page
           /\ IF response.kind # "ok" \/ response.title_elements = <<>>
              THEN /\ log' = Append(log, request)
                   /\ UNCHANGED <<all_articles_data, now>>
              ELSE LET elements == SubSeq(response.title_elements, 1,
                                       Min(articles_per_page,
                                           Len(response.title_elements)))
                       done == ProcessArticles(entry, page, elements, now)
                       pause == page < max_pages
                   IN  /\ all_articles_data' = all_articles_data \o done.records
                       /\ log' = (log \o <<request>> \o done.events)
                                 \o (IF pause THEN <<SleepEvent(2)>> ELSE <<>>)
                       /\ now' = done.t + (IF pause THEN 2 * TicksPerSecond ELSE 0)
    /\ last_fetch' = [response |-> response]
    /\ UNCHANGED <<entry, pc, files, ret, args, max_pages, articles_per_page,
                   samples, interval_seconds, i, samples_df>>
    /\ UNCHANGED <<crypto_symbols, all_crypto_data, raw_data, sample_data, df>>
    /\ UNCHANGED <<weather_vars, bitcoin_vars>>

CsvName(scraper, pages) ==
    IF scraper = V2
    THEN <<"vnexpress_articles_categories_", pages, "pages.csv">>
    ELSE <<"vnexpress_articles_multipage_", pages, "pages.csv">>

\* lines 163-186 (v2: lines 198-221): the loop is over
ScrapeSave ==
    /\ pc = "scrape"
    /\ page_num >= PageLimit(entry, max_pages)
    /\ IF all_articles_data # <<>>
       THEN /\ files' = (CsvName(entry, max_pages) :> all_articles_data) @@ files
            /\ ret' = Some(all_articles_data)
            /\ log' = log
       ELSE /\ log' = Append(log, PrintEvent("No articles were successfully processed"))
            /\ ret' = None
            /\ files' = files
    /\ pc' = "done"
    /\ UNCHANGED <<entry, now, args, samples, interval_seconds, i, samples_df>>
    /\ UNCHANGED <<scraper_vars, weather_vars, crypto_vars, bitcoin_vars>>

\* a call of simple_summarize(text)
SummarizeCall ==
    /\ pc = "call"
    /\ entry = "simple_summarize"
    /\ ret' = simple_summarize(args.text)
    /\ pc' = "done"
    /\ UNCHANGED <<entry, now, files, log, args, samples, interval_seconds, i, samples_df>>
    /\ UNCHANGED <<scraper_vars, weather_vars, crypto_vars, bitcoin_vars>>

ScraperNext ==
    \/ \E response \in PageResponses : ScrapePage(response)
    \/ ScrapeSave
    \/ SummarizeCall

ScraperSpec == ScraperInit /\ [][ScraperNext]_vars

-----------------------------------------------------------------------------
(* The scrapers: properties *)

SummarizeReturned == entry = "simple_summarize" /\ pc = "done"
Ellipsis == <<".", ".", ".">>
EndsWithEllipsis(text) ==
    Len(text) >= 3 /\ SubSeq(text, Len(text) - 2, Len(text)) = Ellipsis

\* C14 as stated: for every text longer than 300 characters simple_summarize
\* returns a summary of exactly 300 characters whose last three are "...".
C14_LongTextSummary300 ==
    (SummarizeReturned /\ Len(args.text) > 300) =>
        Len(ret) = 300 /\ EndsWithEllipsis(ret)

\* C14 amended: for every text whose first three non-empty sentences, joined by
\* ". ", are longer than 300 characters, simple_summarize returns exactly 300
\* characters: the first 297 of the join and then "..."; a text longer than 300
\* characters whose first three sentences join to at most 300 characters gets
\* that join back, with no marker.
C14_LongJoinSummary300 ==
    SummarizeReturned =>
        LET joined == FirstSentences(args.text, 3)
        IN  /\ Len(joined) > 300 =>
                  /\ Len(ret) = 300
                  /\ EndsWithEllipsis(ret)
                  /\ SubSeq(ret, 1, 297) = SubSeq(joined, 1, 297)
            /\ (Len(args.text) > 300 /\ Len(joined) <= 300) =>
                  /\ ret = joined
                  /\ ~EndsWithEllipsis(ret)

\* C14 witness: a text longer than 300 characters, of several sentences of which
\* the first three join to more than 300, was summarized in 300 characters
\* ending with "...".
C14_Witness ==
    /\ SummarizeReturned
    /\ Len(args.text) > 300
    /\ Len(SplitSentences(args.text)) >= 3
    /\ Len(FirstSentences(args.text, 3)) > 300
    /\ Len(ret) = 300 /\ EndsWithEllipsis(ret)

\* C24: for every text the summary of simple_summarize has at most 300
\* characters; it is exactly 300 characters ending with the appended "..." iff
\* the first three non-empty sentences, joined, exceed 300 characters, and it is
\* that join unchanged otherwise; the empty text gives the empty summary. The
\* summaries stored in the article records are within the same limit.
C24_SummaryAtMost300 ==
    /\ SummarizeReturned =>
          LET joined == FirstSentences(args.text, 3)
          IN  /\ Len(ret) <= 300
              /\ (Len(ret) = 300 /\ EndsWithEllipsis(ret)) <=> Len(joined) > 300
              /\ Len(joined) > 300 => ret = SubSeq(joined, 1, 297) \o Ellipsis
              /\ Len(joined) <= 300 => ret = joined
              /\ args.text = <<>> => ret = <<>>
    /\ entry \in {V1, V2} =>
          \A k \in 1..Len(all_articles_data) : Len(all_articles_data[k].summary) <= 300

\* C24 witness: two sentences whose join has exactly 300 characters came back
\* unchanged, 300 characters without the marker.
C24_Witness ==
    /\ SummarizeReturned
    /\ Len(SplitSentences(args.text)) = 2
    /\ Len(FirstSentences(args.text, 3)) = 300
    /\ ret = FirstSentences(args.text, 3)
    /\ ~EndsWithEllipsis(ret)

ScraperRun == entry \in {V1, V2}
ListingFetches ==
    {k \in 1..Len(log) : log[k].op = "request" /\ log[k].what = "listing"}
Consecutive(a, b) ==
    /\ a \in ListingFetches /\ b \in ListingFetches /\ a < b
    /\ \A k \in ListingFetches : ~(a < k /\ k < b)

\* C17: in both news scrapers the script sleeps for the 2-second inter-page
\* delay between any two consecutive listing-page (or category-page) fetches,
\* also when the earlier page's request failed or the page had no titles.
C17_PauseBetweenPages ==
    ScraperRun =>
        \A a, b \in 1..Len(log) :
            Consecutive(a, b) =>
                \E k \in (a + 1)..(b - 1) : log[k] = SleepEvent(2)

ListingRequests ==
    SelectSeq(log, LAMBDA e : e.op = "request" /\ e.what = "listing")
IsPrefix(a, b) == Len(a) <= Len(b) /\ SubSeq(b, 1, Len(a)) = a
ScraperOver == ScraperRun /\ pc = "done"

\* C18: in both news scrapers a listing page that fails or is empty loses only
\* that page: the pages 1 .. page limit are each attempted once and in order
\* whatever the earlier pages gave, no step drops a record already collected,
\* and at the end the CSV holds the collected records and is written iff there
\* is at least one record; otherwise the function returns None and writes nothing.
C18_PageFailureLosesOnlyThatPage ==
    /\ [](ScraperRun =>
            /\ Len(ListingRequests) = page_num
            /\ \A k \in 1..Len(ListingRequests) : ListingRequests[k].page = k)
    /\ [](ScraperOver =>
            /\ page_num = PageLimit(entry, max_pages)
            /\ IF all_articles_data # <<>>
               THEN /\ DOMAIN files = {CsvName(entry, max_pages)}
                    /\ files[CsvName(entry, max_pages)] = all_articles_data
                    /\ ret = Some(all_articles_data)
               ELSE files = <<>> /\ ret = None)
    /\ [][ScraperRun => IsPrefix(all_articles_data, all_articles_data')]_vars

\* C18 witness: of three pages the second failed; the CSV holds records of the
\* first and of the third.
C18_Witness ==
    /\ ScraperOver
    /\ Len(ListingRequests) = 3
    /\ ListingRequests[1].ok /\ ~ListingRequests[2].ok /\ ListingRequests[3].ok
    /\ \E name \in DOMAIN files :
          /\ \E k \in 1..Len(files[name]) : files[name][k].page = 1
          /\ \E k \in 1..Len(files[name]) : files[name][k].page = 3

\* C20: every article record produced by either news scraper carries an
\* absolute URL as its link, whether the href found in the listing page was
\* absolute, root-relative (starting with "/") or path-relative.
C20_EveryLinkAbsolute ==
    ScraperRun =>
        \A k \in 1..Len(all_articles_data) : IsAbsoluteUrl(all_articles_data[k].link)

\* the title elements of the page just served that the article loop visits, and
\* those of them that have a link with an href
Visited ==
    IF last_fetch.response.kind = "ok"
    THEN SubSeq(last_fetch.response.title_elements, 1,
                Min(articles_per_page, Len(last_fetch.response.title_elements)))
    ELSE <<>>
HasLink(element) ==
    LET link_element == LinkElement(entry, element)
    IN  ~link_element.isNone /\ link_element.val # <<>>
Linked == SelectSeq(Visited, HasLink)
PageRecords(p) ==
    SelectSeq(all_articles_data, LAMBDA r : r.page = p)
ArticleRequests(p) ==
    {k \in 1..Len(log) : log[k].op = "request" /\ log[k].what = "article"
                         /\ log[k].page = p}
Unread(element) ==
    \/ element.article.kind # "ok"
    \/ element.article.content = <<>>

\* C26: in both news scrapers, of the title elements visited on a page, each
\* one that has a link gives a record, in order, and the others give none; an
\* article whose page could not be fetched, or held no content, has its record
\* all the same, with empty content preview, empty summary and content_length
\* 0; and every article request, failed or not, is followed by the 1-second
\* pause.
C26_FailedArticleStillRecorded ==
    (ScraperRun /\ page_num >= 1) =>
        LET recs == PageRecords(page_num)
        IN  /\ Len(recs) = Len(Linked)
            /\ \A k \in 1..Len(recs) :
                  /\ recs[k].title = clean_text(Linked[k].text)
                  /\ Unread(Linked[k]) =>
                        /\ recs[k].content_preview = <<>>
                        /\ recs[k].summary = <<>>
                        /\ recs[k].content_length = 0
            /\ Cardinality(ArticleRequests(page_num)) = Len(Linked)
            /\ \A k \in ArticleRequests(page_num) :
                  k < Len(log) /\ log[k + 1] = SleepEvent(1)

\* C26 witness: the page just served listed first an article whose fetch failed
\* and the scraper visited two titles: the failed article has its record, with
\* no content, and the pause followed its request.
C26_Witness ==
    /\ ScraperRun /\ page_num >= 1
    /\ Len(Visited) = 2
    /\ Visited[1].article.kind # "ok"
    /\ Len(PageRecords(page_num)) = 2
    /\ PageRecords(page_num)[1].content_length = 0
    /\ \E k \in ArticleRequests(page_num) : ~log[k].ok /\ log[k + 1] = SleepEvent(1)

-----------------------------------------------------------------------------
(* Part 4: extended-hw-part3/bitcoin_price_tracker.py                        *)
(*   - last_updated_at is a whole number of seconds, as the API quotes it;   *)
(*   - the local time zone keeps one UTC offset during the run, so that      *)
(*     datetime.fromtimestamp maps later seconds to later local times;       *)
(*   - the local clock is read only for collected_at, and the model lets     *)
(*     time pass in the sleeps only.                                         *)

MaxStamps == 2

BitcoinSamples == 5
BitcoinInterval == 10

\* datetime.fromtimestamp(timestamp).strftime('%Y-%m-%d %H:%M:%S')
FromTimestamp(timestamp) == Strftime(timestamp * TicksPerSecond)

NoPrice == [price |-> None, readable_time |-> None, timestamp |-> None]

\* lines 7-38; response: what requests.get / raise_for_status / json() gave
get_bitcoin_current_price(response) ==
    IF response.kind # "ok" THEN NoPrice
    ELSE LET data == response.data
         IN  IF \/ "bitcoin" \notin DOMAIN data
                \/ "usd" \notin DOMAIN data.bitcoin
                \/ "last_updated_at" \notin DOMAIN data.bitcoin
                \/ data.bitcoin.usd.isNone            \* format(None, ',.2f') raises
                \/ data.bitcoin.last_updated_at.isNone \* fromtimestamp(None) raises
             THEN NoPrice
             ELSE [price |-> Some(data.bitcoin.usd.val),
                   readable_time |-> Some(FromTimestamp(data.bitcoin.last_updated_at.val)),
                   timestamp |-> Some(data.bitcoin.last_updated_at.val)]

\* pd.DataFrame(list of dicts with time and usd_price)
PriceFrame(records) ==
    [k \in 1..Len(records) |-> [time |-> records[k].time,
                                usd_price |-> records[k].usd_price]]

\* faulty variant: keep = 'last'
RECURSIVE drop_duplicates_time_keep_last(_)
drop_duplicates_time_keep_last(frame) ==
    IF frame = <<>> THEN <<>>
    ELSE LET rest == drop_duplicates_time_keep_last(Tail(frame))
         IN  IF \E k \in 2..Len(frame) : frame[k].time = frame[1].time
             THEN rest
             ELSE <<frame[1]>> \o rest

\* df.drop_duplicates(subset=['time']): keep = 'first'
RECURSIVE drop_duplicates_time(_)
drop_duplicates_time(frame) ==
    IF frame = <<>> THEN <<>>
    ELSE LET n == Len(frame)
             front == drop_duplicates_time(SubSeq(frame, 1, n - 1))
         IN  IF \E k \in 1..(n - 1) : frame[k].time = frame[n].time
             THEN front
             ELSE Append(front, frame[n])

\* df.sort_values('time').reset_index(drop=True), the times being distinct
RECURSIVE sort_values_time(_)
sort_values_time(frame) ==
    IF frame = <<>> THEN <<>>
    ELSE LET n == Len(frame)
         IN  TimeInsert(frame[n], sort_values_time(SubSeq(frame, 1, n - 1)))

\* faulty variant: the duplicates are kept
BitcoinFinalFrame_keep_duplicates(records) == sort_values_time(PriceFrame(records))

\* main, lines 135-138
BitcoinFinalFrame(records) ==
    sort_values_time(drop_duplicates_time(PriceFrame(records)))

\* what the price API may answer: the prices quoted, in cents, and the seconds
\* of the last update, on both sides of a minute
BitcoinQuotes == {11150000, 11400000}
LastUpdates == 59..(58 + MaxStamps)

BitcoinPayloads ==
    {[bitcoin |-> [usd |-> Some(p), last_updated_at |-> Some(u)]] :
        p \in BitcoinQuotes, u \in LastUpdates}
    \cup {<<>>,
          [bitcoin |-> [usd |-> Some(11150000)]],
          [bitcoin |-> [usd |-> None, last_updated_at |-> Some(59)]]}

BitcoinResponses ==
    {[kind |-> f] : f \in FailureKinds}
    \cup {[kind |-> "ok", data |-> d] : d \in BitcoinPayloads}

BitcoinRequestEvent(r) == [op |-> "request", timestamp |-> r.timestamp]

BitcoinInit ==
    /\ entry = "bitcoin_price_tracker.main"
    /\ pc = "current_price"
    /\ now = StartSecond * TicksPerSecond
    /\ samples = BitcoinSamples
    /\ interval_seconds = BitcoinInterval
    /\ i = 0
    /\ samples_df = None
    /\ price_data = <<>>
    /\ all_price_data = <<>>
    /\ files = <<>>
    /\ ret = None
    /\ log = <<>>
    /\ args = <<>>
    /\ WeatherIdle /\ ScraperIdle
    /\ crypto_symbols = <<>> /\ all_crypto_data = <<>> /\ raw_data = None
    /\ sample_data = <<>> /\ df = <<>>
    /\ last_fetch = Fetched([kind |-> "none"], [crypto_data |-> None, printed |-> <<>>])

\* main, lines 110-119: the current price
CurrentPrice(response) ==
    /\ pc = "current_price"
    /\ LET r == get_bitcoin_current_price(response)
       IN  /\ all_price_data' =
                 IF ~r.price.isNone
                 THEN Append(all_price_data, [time |-> r.readable_time.val,
                                              usd_price |-> r.price.val])
                 ELSE all_price_data
           /\ log' = Append(log, BitcoinRequestEvent(r))
    /\ pc' = "price_sample"
    /\ UNCHANGED <<entry, now, files, ret, args, samples, interval_seconds, i,
                   samples_df, price_data>>
    /\ UNCHANGED <<weather_vars, scraper_vars, crypto_vars>>

\* get_bitcoin_multiple_samples, lines 46-57: one sample
PriceSample(response) ==
    /\ pc = "price_sample"
    /\ i < samples
    /\ LET r == get_bitcoin_current_price(response)
       IN  /\ price_data' =
                 IF ~r.price.isNone
                 THEN Append(price_data, [time |-> r.readable_time.val,
                                          usd_price |-> r.price.val])
                 ELSE price_data
           /\ log' = Append(log, BitcoinRequestEvent(r))
    /\ IF i < samples - 1
       THEN pc' = "price_sleep" /\ i' = i
       ELSE pc' = "price_sample" /\ i' = i + 1
    /\ UNCHANGED <<entry, now, files, ret, args, samples, interval_seconds,
                   samples_df, all_price_data>>
    /\ UNCHANGED <<weather_vars, scraper_vars, crypto_vars>>

\* get_bitcoin_multiple_samples, lines 58-59: time.sleep(interval_seconds)
PriceSleep ==
    /\ pc = "price_sleep"
    /\ now' = now + interval_seconds * TicksPerSecond
    /\ log' = Append(log, SleepEvent(interval_seconds))
    /\ i' = i + 1
    /\ pc' = "price_sample"
    /\ UNCHANGED <<entry, files, ret, args, samples, interval_seconds, samples_df>>
    /\ UNCHANGED <<bitcoin_vars, weather_vars, scraper_vars, crypto_vars>>

\* get_bitcoin_multiple_samples, lines 61-67: the loop is over
PriceSamplesReturn ==
    /\ pc = "price_sample"
    /\ i >= samples
    /\ samples_df' = IF price_data # <<>> THEN Some(PriceFrame(price_data)) ELSE None
    /\ pc' = "price_save"
    /\ UNCHANGED <<entry, now, files, ret, args, samples, interval_seconds, i, log>>
    /\ UNCHANGED <<bitcoin_vars, weather_vars, scraper_vars, crypto_vars>>

\* main, lines 124-199
BitcoinSave ==
    /\ pc = "price_save"
    /\ LET records == IF ~samples_df.isNone
                      THEN all_price_data \o to_dict_records(samples_df.val)
                      ELSE all_price_data
       IN  /\ all_price_data' = records
           /\ IF records # <<>>
              THEN LET final_df == BitcoinFinalFrame(records)
                       collection_timestamp == Strftime(now)
                       detailed == [k \in 1..Len(final_df) |->
                                       [time |-> final_df[k].time,
                                        usd_price |-> final_df[k].usd_price,
                                        collected_at |-> collection_timestamp]]
                       main_df == final_df
                       raw == [collection_info |->
                                  [script |-> "bitcoin_price_tracker.py",
                                   collection_time |-> collection_timestamp,
                                   total_records |-> Len(detailed)],
                               price_data |-> to_dict_records(detailed)]
                   IN  /\ files' = ("bitcoin_price_tracker.csv" :> main_df)
                                   @@ ("bitcoin_price_tracker_detailed.csv" :> detailed)
                                   @@ ("bitcoin_price_tracker_raw.json" :> raw)
                                   @@ files
                       /\ ret' = Some(main_df)
                       /\ log' = log
              ELSE /\ log' = Append(log, PrintEvent("No Bitcoin price data collected"))
                   /\ ret' = None
                   /\ files' = files
    /\ pc' = "price_exit"
    /\ UNCHANGED <<entry, now, args, samples, interval_seconds, i, samples_df,
                   price_data>>
    /\ UNCHANGED <<weather_vars, scraper_vars, crypto_vars>>

\* lines 201-208
BitcoinExit ==
    /\ pc = "price_exit"
    /\ log' = Append(log, PrintEvent(IF ~ret.isNone
                                      THEN "collection completed successfully"
                                      ELSE "collection failed"))
    /\ pc' = "done"
    /\ UNCHANGED <<entry, now, files, ret, args, samples, interval_seconds, i,
                   samples_df>>
    /\ UNCHANGED <<bitcoin_vars, weather_vars, scraper_vars, crypto_vars>>

BitcoinNext ==
    \/ \E response \in BitcoinResponses : CurrentPrice(response)
    \/ \E response \in BitcoinResponses : PriceSample(response)
    \/ PriceSleep
    \/ PriceSamplesReturn
    \/ BitcoinSave
    \/ BitcoinExit

BitcoinSpec == BitcoinInit /\ [][BitcoinNext]_vars

\* the polls that returned a price, as the seconds of their last update
SuccessfulPolls == SelectSeq(log, LAMBDA e : e.op = "request" /\ ~e.timestamp.isNone)
BitcoinCsv == "bitcoin_price_tracker.csv"

\* C15: the table the bitcoin tracker's main writes has no two records with the
\* same time and is sorted ascending by time; a record's time being the API's
\* last_updated_at, the table has as many records as the successful polls had
\* distinct last_updated_at values, which can be fewer than the successful polls.
C15_OneRecordPerLastUpdate ==
    (entry = "bitcoin_price_tracker.main" /\ Written(BitcoinCsv)) =>
        LET t == files[BitcoinCsv]
            polls == SuccessfulPolls
        IN  /\ \A a, b \in 1..Len(t) : a # b => t[a].time # t[b].time
            /\ \A a \in 1..(Len(t) - 1) : LexLess(t[a].time, t[a + 1].time)
            /\ Len(t) = Cardinality({polls[k].timestamp.val : k \in 1..Len(polls)})
            /\ Len(t) <= Len(polls)
            /\ \A k \in 1..Len(polls) :
                  \E a \in 1..Len(t) : t[a].time = FromTimestamp(polls[k].timestamp.val)

\* C15 witness: main wrote two records after four successful polls, the later
\* last_updated_at having been collected before the earlier one.
C15_Witness ==
    /\ entry = "bitcoin_price_tracker.main" /\ Written(BitcoinCsv)
    /\ Len(files[BitcoinCsv]) = 2
    /\ Len(SuccessfulPolls) = 4
    /\ SuccessfulPolls[1].timestamp.val > SuccessfulPolls[2].timestamp.val

-----------------------------------------------------------------------------
(* The three collecting scripts side by side: a run of the multi-crypto      *)
(* tracker, of the weather collector or of a news scraper.                   *)

CollectInit == Init \/ WeatherInit \/ ScraperInit
CollectNext == Next \/ WeatherNext \/ ScraperNext
CollectSpec == CollectInit /\ [][CollectNext]_vars

CollectingRun == entry \in {"main", "vietnam_weather_data.main", V1, V2}
StillCollecting == pc \in {"main", "sample", "sleep", "fetch_city", "scrape"}

\* C16: in a run of the multi-crypto tracker, the weather collector or a news
\* scraper, no output file exists while requests are still to be made, and no
\* request is made in or after a step that writes a file: every file is written
\* after the last fetch, and a run that stops during collection leaves no file.
C16_WritesAfterLastFetch ==
    /\ []((CollectingRun /\ StillCollecting) => files = <<>>)
    /\ [][(CollectingRun /\ (files # <<>> \/ files' # files)) =>
             CountOps(log', "request") = CountOps(log, "request")]_vars

\* C16 witness: a run wrote its files after three requests or more.
C16_Witness ==
    /\ CollectingRun
    /\ ~StillCollecting
    /\ files # <<>>
    /\ NumRequests >= 3

-----------------------------------------------------------------------------
(* The two price trackers side by side: a run of the multi-crypto tracker    *)
(* or of the bitcoin tracker.                                                *)

TrackersInit == Init \/ BitcoinInit
TrackersNext == Next \/ BitcoinNext
TrackersSpec == TrackersInit /\ [][TrackersNext]_vars

\* the first of the collected records, in the order collected, that has the key
\* of the k-th one
FirstSame(records, same(_, _), k) ==
    CHOOSE j \in 1..k :
        /\ same(records[j], records[k])
        /\ \A h \in 1..(j - 1) : ~same(records[h], records[k])

\* table holds, for every record collected, exactly one row with its key, which
\* has the price of the first record collected with that key, and no other row
KeepsFirst(records, table, same(_, _)) ==
    /\ \A k \in 1..Len(records) :
          LET rows == {a \in 1..Len(table) : same(table[a], records[k])}
          IN  /\ Cardinality(rows) = 1
              /\ \A a \in rows :
                    table[a].usd_price = records[FirstSame(records, same, k)].usd_price
    /\ \A a \in 1..Len(table) : \E k \in 1..Len(records) : same(table[a], records[k])

SameTime(a, b) == a.time = b.time
BitcoinOver == entry = "bitcoin_price_tracker.main" /\ pc \in {"price_exit", "done"}

\* C23: of the collected records that share their deduplication key ((time,
\* symbol) in the multi-crypto tracker, time in the bitcoin tracker) the output
\* keeps the one collected first (the initial fetch before round 1, a round
\* before the later ones) with its price, and every key collected occurs
\* exactly once in the output.
C23_FirstCollectedKept ==
    /\ (MainOver /\ Written(PriceCsv)) =>
          KeepsFirst(all_crypto_data, files[PriceCsv], SameKey)
    /\ (BitcoinOver /\ Written(BitcoinCsv)) =>
          KeepsFirst(all_price_data, files[BitcoinCsv], SameTime)

\* C23 witness: the bitcoin tracker collected two prices for one time, the
\* higher one first, and wrote the higher one.
C23_Witness ==
    /\ BitcoinOver /\ Written(BitcoinCsv)
    /\ Len(all_price_data) >= 2
    /\ SameTime(all_price_data[1], all_price_data[2])
    /\ all_price_data[1].usd_price > all_price_data[2].usd_price
    /\ \E a \in 1..Len(files[BitcoinCsv]) :
          /\ SameTime(files[BitcoinCsv][a], all_price_data[1])
          /\ files[BitcoinCsv][a].usd_price = all_price_data[1].usd_price

-----------------------------------------------------------------------------
(* The scrapers, with runs of the category scraper that ask for as many      *)
(* pages as there are categories, or for more. In these long runs a page     *)
(* either fails to load or lists two titles, and one article is asked per    *)
(* page.                                                                     *)

LongRuns == {Len(categories), Len(categories) + 1, Len(categories) + 5}

LongRunResponses ==
    {[kind |-> "connection_error"],
     [kind |-> "ok",
      title_elements |->
          <<Element(<<"T", "1">>, Some(AbsoluteHref), None, ArticleOk(ShortText)),
            Element(<<"T", "2">>, Some(RootRelativeHref), None, ArticleFails)>>]}

LongRunInit ==
    /\ entry = V2
    /\ pc = "scrape"
    /\ max_pages \in LongRuns
    /\ articles_per_page = 1
    /\ args = <<>>
    /\ now = StartSecond * TicksPerSecond
    /\ page_num = 0
    /\ all_articles_data = <<>>
    /\ files = <<>>
    /\ ret = None
    /\ log = <<>>
    /\ WeatherIdle /\ BitcoinIdle
    /\ crypto_symbols = <<>> /\ samples = 0 /\ interval_seconds = 0 /\ i = 0
    /\ all_crypto_data = <<>> /\ raw_data = None /\ sample_data = <<>>
    /\ samples_df = None /\ df = <<>>
    /\ last_fetch = Fetched([kind |-> "none"], [crypto_data |-> None, printed |-> <<>>])

PagesInit == ScraperInit \/ LongRunInit

PagesNext ==
    \/ max_pages <= MaxPages /\ ScraperNext
    \/ max_pages > MaxPages /\ \E response \in LongRunResponses : ScrapePage(response)
    \/ max_pages > MaxPages /\ ScrapeSave

PagesSpec == PagesInit /\ [][PagesNext]_vars

RecordsOfPage(p) == {k \in 1..Len(all_articles_data) : all_articles_data[k].page = p}

\* C25: in both news scrapers the collected list holds at most
\* articles_per_page records of any one page index, the page indices are in
\* 1..max_pages and never decrease along the list; the category scraper fetches
\* at most 10 pages, the number of its categories, however large max_pages is.
C25_PageIndicesBounded ==
    ScraperRun =>
        /\ \A p \in 1..max_pages : Cardinality(RecordsOfPage(p)) <= articles_per_page
        /\ \A k \in 1..Len(all_articles_data) : all_articles_data[k].page \in 1..max_pages
        /\ \A k \in 1..(Len(all_articles_data) - 1) :
              all_articles_data[k].page <= all_articles_data[k + 1].page
        /\ entry = V2 =>
              /\ Len(ListingRequests) <= 10
              /\ \A k \in 1..Len(ListingRequests) : ListingRequests[k].page \in 1..10
              /\ \A k \in 1..Len(all_articles_data) : all_articles_data[k].page <= 10

\* C25 witness: the category scraper, asked for more than 10 pages, ended after
\* 10 page fetches with one record of the tenth category.
C25_Witness ==
    /\ entry = V2 /\ pc = "done"
    /\ max_pages > 10
    /\ Len(ListingRequests) = 10
    /\ Cardinality(RecordsOfPage(10)) = 1

====
